---- MODULE Spec2Model ----
(***************************************************************************)
(* Strautomator Core: the FIT parser (FitParser.parse), the activity       *)
(* matcher (FitParser.getMatchingActivity) and their collaborators.        *)
(*                                                                         *)
(* Units of the model.  JavaScript numbers that may be fractional are kept *)
(* as integers in a fixed unit:                                            *)
(*   total_distance        metres                                          *)
(*   total_elapsed_time    milliseconds (the decoded value is seconds with *)
(*                         three decimals)                                 *)
(*   timestamp             milliseconds (a Date)                           *)
(*   summary distance      tenths of a kilometre (toFixed(1))              *)
(*   summary totalTime     seconds                                         *)
(*   pausedTime            seconds                                         *)
(*   trainingLoad, pedalSmoothness, pedalTorqueEffect                      *)
(*                         1/Unit of the field's own unit, so that the     *)
(*                         mean of two or three values is exact            *)
(* Strings that the code takes apart (names) are sequences of characters.  *)
(***************************************************************************)
EXTENDS Integers, Sequences, FiniteSets, TLC

\* ------------------------------------------------------------------ bounds

\* Longest record stream of an input buffer.
MaxRecords == 3

\* Most summaries the store holds, both vendor collections together.
MaxStored == 2

\* Last tick of the clock.
MaxClock == 3

\* settings.axios.retryInterval, in ticks of the clock.
RetryInterval == 1

\* ---------------------------------------------------------- JS value helpers

\* An object without own keys, {}.
EmptyObj == [k \in {} |-> 0]

Has(obj, key) == key \in DOMAIN obj

\* obj[key] = value
SetKey(obj, key, value) == (key :> value) @@ obj

\* delete obj[key]
DeleteKey(obj, key) == [k \in DOMAIN obj \ {key} |-> obj[k]]

\* The result of arithmetic on undefined (undefined / 1000, Math.round(undefined)).
NaN == 0 - 1

\* Fixed-point unit of the fields that Math.round is applied to.
Unit == 3 * 4

\* Math.round on a non-negative number given in 1/den: floor(x + 0.5).
MathRound(num, den) == (2 * num + den) \div (2 * den)

RECURSIVE SumSeq(_)
SumSeq(s) == IF s = <<>> THEN 0 ELSE Head(s) + SumSeq(Tail(s))

RECURSIVE MapField(_, _)
\* The values of property `field` over the elements that have it.
MapField(list, field) ==
    IF list = <<>> THEN <<>>
    ELSE IF Has(Head(list), field)
         THEN <<Head(list)[field]>> \o MapField(Tail(list), field)
         ELSE MapField(Tail(list), field)

\* lodash _.sumBy(list, field): 0 for an empty list; undefined values are
\* skipped, and the result is undefined (here <<>>) when every value is.
SumBy(list, field) ==
    IF list = <<>> THEN <<0>>
    ELSE IF MapField(list, field) = <<>> THEN <<>>
    ELSE <<SumSeq(MapField(list, field))>>

\* ------------------------------------------------------------- input buffers

\* The decoded content of the records a buffer may hold: what readRecord
\* returns for the record as {messageType, message}.  Event messages get
\* their timestamp from their place in the stream (TimestampAt).
SessionFull ==
    [messageType |-> "session",
     message |-> [total_distance |-> 10000, total_elapsed_time |-> 3600400,
                  training_load |-> 2 * Unit + 3,
                  left_right_balance |-> [value |-> 6000, right |-> TRUE]]]

SessionNoDistance ==
    [messageType |-> "session", message |-> [total_elapsed_time |-> 1500500]]

SessionNoTime ==
    [messageType |-> "session", message |-> [total_distance |-> 250]]

LapMsg ==
    [messageType |-> "lap",
     message |-> [total_distance |-> 5000, total_elapsed_time |-> 1800000]]

TimerStart ==
    [messageType |-> "event", message |-> [event |-> "timer", event_type |-> "start"]]

TimerStopAll ==
    [messageType |-> "event", message |-> [event |-> "timer", event_type |-> "stop_all"]]

LengthMsg ==
    [messageType |-> "length", message |-> [total_elapsed_time |-> 30000]]

RecordMsg ==
    [messageType |-> "record", message |-> [distance |-> 123]]

MessagePool ==
    {SessionFull, SessionNoDistance, SessionNoTime, LapMsg, TimerStart,
     TimerStopAll, LengthMsg, RecordMsg}

\* Sessions that carry the derived fields.  A session whose derived values
\* are all 0:
SessionZeros ==
    [messageType |-> "session",
     message |-> [total_elapsed_time |-> 60000, intensity_factor |-> 0,
                  training_load |-> 0, primary_benefit |-> 0,
                  avg_left_pedal_smoothness |-> 0]]

\* every derived field, a benefit code of the table, a balance above 10000:
SessionRich ==
    [messageType |-> "session",
     message |-> [total_distance |-> 2000, intensity_factor |-> 5,
                  training_stress_score |-> 40, training_load |-> 5 * Unit + 6,
                  primary_benefit |-> 3, total_training_effect |-> 3,
                  total_anaerobic_effect |-> 1,
                  avg_left_pedal_smoothness |-> 2 * Unit,
                  avg_right_pedal_smoothness |-> 3 * Unit,
                  avg_left_torque_effectiveness |-> 7 * Unit,
                  avg_right_torque_effectiveness |-> 8 * Unit,
                  left_right_balance |-> [value |-> 10500, right |-> TRUE]]]

\* a benefit code the table does not have, a balance that is not right-based:
SessionLeftBalance ==
    [messageType |-> "session",
     message |-> [primary_benefit |-> 9,
                  left_right_balance |-> [value |-> 4000, right |-> FALSE]]]

\* the last code of the table, a right-based balance of 40.5 %:
SessionSprint ==
    [messageType |-> "session",
     message |-> [primary_benefit |-> 7, intensity_factor |-> 4,
                  left_right_balance |-> [value |-> 4050, right |-> TRUE]]]

MetricPool ==
    {SessionFull, SessionZeros, SessionRich, SessionLeftBalance, SessionSprint,
     LapMsg}

\* Device-info messages.  Three of one device (the second without a battery
\* status, the third with a product code in place of the product name), one
\* that shares its manufacturer and serial number but is of another type,
\* one without a serial number, one without a manufacturer, and another
\* device.
Garmin == <<"g", "a", "r", "m", "i", "n">>

Wahoo == <<"w", "a", "h", "o", "o">>

Edge530 == <<"e", "d", "g", "e", "_", "5", "3", "0">>

HeartRate == <<"h", "e", "a", "r", "t", "_", "r", "a", "t", "e">>

DeviceEdge ==
    [messageType |-> "device_info",
     message |-> [manufacturer |-> Garmin, serial_number |-> 1234,
                  product_name |-> Edge530, battery_status |-> "good"]]

DeviceEdgeNoBattery ==
    [messageType |-> "device_info",
     message |-> [manufacturer |-> Garmin, serial_number |-> 1234,
                  product_name |-> Edge530]]

DeviceEdgeByCode ==
    [messageType |-> "device_info",
     message |-> [manufacturer |-> Garmin, serial_number |-> 1234,
                  product |-> 3121, battery_status |-> "low"]]

DeviceStrap ==
    [messageType |-> "device_info",
     message |-> [manufacturer |-> Garmin, serial_number |-> 1234,
                  device_type |-> HeartRate, battery_status |-> "ok"]]

DeviceNoSerial ==
    [messageType |-> "device_info",
     message |-> [manufacturer |-> Garmin, product_name |-> Edge530,
                  battery_status |-> "good"]]

DeviceNoManufacturer ==
    [messageType |-> "device_info",
     message |-> [serial_number |-> 1234, device_index |-> 0]]

DeviceWahoo ==
    [messageType |-> "device_info",
     message |-> [manufacturer |-> Wahoo, serial_number |-> 77,
                  device_index |-> 1]]

DevicePool ==
    {DeviceEdge, DeviceEdgeNoBattery, DeviceEdgeByCode, DeviceStrap,
     DeviceNoSerial, DeviceNoManufacturer, DeviceWahoo, SessionFull}

\* Records for which readRecord has nothing to file: an unknown global
\* message number (empty message kind), a record without a message, and a
\* malformed record, on which readRecord throws.  A message kind without a
\* bucket of its own.
UnknownMsg == [messageType |-> "", message |-> [raw |-> 1]]

NoMessage == [messageType |-> "lap", message |-> EmptyObj, absent |-> TRUE]

Malformed == [messageType |-> "", message |-> EmptyObj, malformed |-> TRUE]

HrvMsg == [messageType |-> "hrv", message |-> [time |-> 800]]

SkipPool ==
    {UnknownMsg, NoMessage, Malformed, HrvMsg, SessionFull, SessionNoDistance,
     TimerStopAll, TimerStart}

\* Timestamp of the record at place i of the stream: t0, t0 + 100000 ms,
\* t0 + 160000 ms, then one minute apart.
TimestampAt(i) ==
    1000000 + (IF i = 1 THEN 0 ELSE 100000 + (i - 2) * 60000)

\* A stream of pool records with the timestamps of the event and device-info
\* messages filled in.
Stamp(records) ==
    [i \in 1..Len(records) |->
        IF ~Has(records[i], "slot")
           /\ records[i].messageType \in {"event", "device_info"}
        THEN [records[i] EXCEPT
                 !.message = SetKey(records[i].message, "timestamp", TimestampAt(i))]
        ELSE records[i]]

StreamsOf(pool) ==
    UNION {{Stamp(s) : s \in [1..n -> pool]} : n \in 0..MaxRecords}

Streams == StreamsOf(MessagePool)

\* Bytes a record takes in the buffer: its header byte and one per field.
RecordSize(rec) == 1 + Cardinality(DOMAIN rec.message)

RECURSIVE SizeSum(_, _)
\* Bytes of the first n records.
SizeSum(records, n) ==
    IF n = 0 THEN 0 ELSE SizeSum(records, n - 1) + RecordSize(records[n])

\* Values of a 16-bit checksum.
CrcRange == 65536

\* calculateCRC(blob, start, end): a checksum of the bytes in [start, end),
\* here of what the model keeps of them.
CalculateCRC(blob, start, end) ==
    ((IF start < 12 THEN 7 * blob.b0 + 3 * blob.dataLength ELSE 0)
       + 31 * Cardinality({i \in 1..Len(blob.records) :
                             /\ blob.b0 + SizeSum(blob.records, i - 1) >= start
                             /\ blob.b0 + SizeSum(blob.records, i) <= end})
       + 5 * (end - start)) % CrcRange

\* A buffer: its length, byte 0 (the header length), bytes 4-7 (the data
\* length), bytes 8-11 (the file type), the stored header CRC (bytes 12-13
\* of a 14-byte header), the stored file CRC (the two bytes after the data)
\* and the records of the data section.
MakeBlob(length, b0, fileType, records, headerCrcOff, fileCrcOff) ==
    LET core == [length |-> length, b0 |-> b0, fileType |-> fileType,
                 dataLength |-> SizeSum(records, Len(records)),
                 records |-> records]
    IN  [length |-> core.length, b0 |-> core.b0, fileType |-> core.fileType,
         dataLength |-> core.dataLength, records |-> core.records,
         crcHeader |-> (CalculateCRC(core, 0, 12) + headerCrcOff) % CrcRange,
         crcFile |-> (CalculateCRC(core, IF b0 = 12 THEN 0 ELSE b0,
                                   core.dataLength + b0) + fileCrcOff) % CrcRange]

\* Well-formed headers of 12 and 14 bytes, with matching and with
\* mismatching checksums; a truncated buffer; a header length that is
\* neither 12 nor 14; a wrong file type.
Blobs ==
    UNION {
        {MakeBlob(12 + SizeSum(s, Len(s)) + 2, 12, ".FIT", s, 0, f) : f \in {0, 1}}
        \cup {MakeBlob(14 + SizeSum(s, Len(s)) + 2, 14, ".FIT", s, h, f) :
                 h \in {0, 1}, f \in {0, 1}}
        \cup {MakeBlob(11, 12, ".FIT", <<>>, 0, 0),
              MakeBlob(14 + SizeSum(s, Len(s)) + 2, 13, ".FIT", s, 0, 0),
              MakeBlob(14 + SizeSum(s, Len(s)) + 2, 14, "RIFF", s, 0, 0)}
        : s \in Streams}

\* Well-formed buffers with a 12-byte header and a matching checksum, over
\* the streams of a pool.
PlainBlobs(pool) ==
    {MakeBlob(12 + SizeSum(s, Len(s)) + 2, 12, ".FIT", s, 0, 0) :
        s \in StreamsOf(pool)}

\* The destination summaries a caller supplies: a new one, tagged with its
\* id and owner, and one that already carries the result of an earlier parse.
NewSummary == [id |-> "a1", userId |-> "u1"]

UsedSummary ==
    [id |-> "a1", userId |-> "u1", distance |-> 421, totalTime |-> 5400,
     pedalBalance |-> [str |-> "L 50% / R 50%"]]

Summaries == {NewSummary, UsedSummary}

\* A summary whose metrics the caller filled in: a fractional training load,
\* a benefit code and a raw pedal balance.
MetricSummary ==
    [id |-> "a1", userId |-> "u1", trainingLoad |-> 4 * Unit + 7,
     primaryBenefit |-> [num |-> 2],
     pedalBalance |-> [value |-> 5000, right |-> TRUE]]

\* ------------------------------------------------------------ FitParser.parse

VARIABLES
    blob,               \* rawData, the buffer being parsed
    supplied,           \* the destination summary as the caller supplied it
    fitFileActivity,    \* the destination summary, changed in place
    pc,                 \* where parse is: header, crc, loop, done, failed
    thrown,             \* the message of the Error parse threw, "" if none
    warnings,           \* what logger.warn was called with, in order
    loopIndex,          \* the cursor of the decode loop
    recordsRead,        \* calls of readRecord so far
    fitObj,             \* the message buckets
    lastStopTimestamp,  \* <<>> while undefined, else <<timestamp>>
    pausedTime,         \* the paused-time accumulator
    messageTypes        \* the local-message definitions, by slot

parseVars ==
    <<blob, supplied, fitFileActivity, pc, thrown, warnings, loopIndex,
      recordsRead, fitObj, lastStopTimestamp, pausedTime, messageTypes>>

\* The state of FitParser.getMatchingActivity.
VARIABLES
    store,          \* the database: the summaries of each vendor collection
    target,         \* the Strava activity to be matched
    source,         \* the source argument, "" when it is not passed
    mpc,            \* where the call is: start, searchGarmin, searchWahoo,
                    \* search, sleep, evaluate, returned
    where,          \* the query built from the target
    activities,     \* the candidates
    queries,        \* every database.search made: collection, query, time,
                    \* result, and the collection's documents at that time
    clock,          \* the time
    wakeAt,         \* when the sleep ends
    returned,       \* what the call returned
    logged          \* the logger method of the call's last log line

matchVars ==
    <<store, target, source, mpc, where, activities, queries, clock, wakeAt,
      returned, logged>>

\* Two calls of FitParser.parse in flight together: for each call its
\* arguments, its locals and where it is.
VARIABLES
    runs

pairVars == <<runs>>

\* The state of FitParser.saveProcessedActivity.
VARIABLES
    saveSource,     \* the source argument
    saveArg,        \* the activity argument as the caller passed it
    saveActivity,   \* the activity argument, changed in place
    documents,      \* the database: each collection's documents by key
    spc,            \* where the call is: start, set, done
    saveRaised,     \* the message of the Error the call threw, "" if none
    saveLogged      \* the logger method of the call's last log line

saveVars ==
    <<saveSource, saveArg, saveActivity, documents, spc, saveRaised, saveLogged>>

\* The state of GearWear.processRecentActivities: the stored "gearwear"
\* application state, the calendar day, and the executions in flight.
VARIABLES
    appState,       \* the document database.appState holds under "gearwear"
    procDay,        \* the day dayjs.utc() falls on, counted in days
    execs           \* for each execution: where it is and its locals

procVars == <<appState, procDay, execs>>

\* The state of GearWear.updateTracking, notify and resetTracking on one
\* GearWear configuration with one component.
VARIABLES
    gearUser,       \* the user argument: email set or not, privacy mode
    config,         \* the config argument, an object the calls change in place
    gearStore,      \* what database.set last stored under the config's id
    gearNow,        \* dayjs.utc(), in ticks
    messages,       \* the emails and notifications sent since the last reset
    calls,          \* the notify calls of the last updateTracking
    before,         \* the component as the last call found it
    added,          \* for each activity id, how often its totals were added
    resets,         \* the ticks at which resetTracking zeroed the component
    unread,         \* the unread notifications of the gear
    gearCalls       \* the calls made so far

gearVars ==
    <<gearUser, config, gearStore, gearNow, messages, calls, before, added,
      resets, unread, gearCalls>>

\* The state of GearWear.upsert on one gear id.
VARIABLES
    gearDoc,        \* the "gearwear" document of the gear id
    upsertArg,      \* the gearwear argument as the last call left it
    upsertHasGear,  \* whether the gear id is among the user's bikes or shoes
    upsertFound,    \* the document as the last call found it
    upsertOutcome,  \* how the last call ended: idle, returned, raised
    upserts         \* the calls made so far

upsertVars ==
    <<gearDoc, upsertArg, upsertHasGear, upsertFound, upsertOutcome, upserts>>

\* The state of RecipeStats.updateStats on one recipe of one user.
VARIABLES
    statsRecipe,    \* the recipe argument: its dataCounterProp, "" if none
    statsDoc,       \* the "recipe-stats" document of the user and recipe
    statsFound,     \* the document as the last call found it
    statsActivity,  \* the activity argument of the last call
    statsStored,    \* whether the last call stored the stats
    statsNow,       \* dayjs.utc(), in ticks
    counted,        \* for each activity id, how often it raised the counter
    dataSum         \* the sum of the data property over the counted activities

statsVars ==
    <<statsRecipe, statsDoc, statsFound, statsActivity, statsStored, statsNow,
      counted, dataSum>>

\* The state of GDPR.generateArchive and clearArchives for one user.
VARIABLES
    gdprUser,       \* the stored user: missing, suspended, and the date of
                    \* the last archive
    archive,        \* whether the GDPR bucket holds the user's archive
    gdprNow,        \* dayjs(), in ticks
    gdprArg,        \* the user argument of the last call
    gdprFound,      \* whether the bucket held the archive when the call began
    gdprOps,        \* the store and storage calls of the last call, in order
    gdprThrew,      \* the call of the last call that threw, "none" if none
    gdprResult,     \* how the last call ended: idle, cached, built, raised
    builds          \* the archives built: when, and what the call found

gdprVars ==
    <<gdprUser, archive, gdprNow, gdprArg, gdprFound, gdprOps, gdprThrew,
      gdprResult, builds>>

\* The components outside the FIT decoder.
restVars == <<procVars, gearVars, upsertVars, statsVars, gdprVars>>

vars == <<parseVars, matchVars, pairVars, saveVars, restVars>>

\* What a step of parse leaves alone, and what a step of the matcher does.
beyondParse == <<matchVars, pairVars, saveVars, restVars>>
beyondMatch == <<parseVars, pairVars, saveVars, restVars>>

\* The FIT decoder's state, which the other components leave alone.
fitVars == <<parseVars, matchVars, pairVars, saveVars>>

\* What a step of processRecentActivities leaves alone.
beyondProc == <<fitVars, gearVars, upsertVars, statsVars, gdprVars>>

\* What a step of the gear tracking leaves alone.
beyondGear == <<fitVars, procVars, upsertVars, statsVars, gdprVars>>

\* What a call of upsert leaves alone.
beyondUpsert == <<fitVars, procVars, gearVars, statsVars, gdprVars>>

\* What a call of updateStats leaves alone.
beyondStats == <<fitVars, procVars, gearVars, upsertVars, gdprVars>>

\* What a call of the GDPR manager leaves alone.
beyondGdpr == <<fitVars, procVars, gearVars, upsertVars, statsVars>>

\* The buckets as parse creates them; `named` holds fitObj.software and the
\* fitObj[messageType] entries of the default branch.
EmptyFitObj ==
    [sessions |-> <<>>, workout_steps |-> <<>>, laps |-> <<>>, lengths |-> <<>>,
     events |-> <<>>, devices |-> <<>>, developer_data_ids |-> <<>>,
     field_descriptions |-> <<>>, dive_gases |-> <<>>, course_points |-> <<>>,
     sports |-> <<>>, monitors |-> <<>>, stress |-> <<>>, file_ids |-> <<>>,
     monitor_info |-> <<>>, definitions |-> <<>>, named |-> EmptyObj]

\* const crcStart = dataLength + headerLength
CrcStart(b) == b.dataLength + b.b0

\* The fields of a Data record that a definition lays out.
DecodeWith(definition, raw) ==
    [k \in DOMAIN raw \cap definition.fields |-> raw[k]]

\* readRecord(blob, messageTypes, developerFields, loopIndex, ...): the
\* record that starts at the cursor and the index after it; `hasMessage`
\* is whether `message` is set, `throws` whether the call throws instead of
\* returning, `messageTypes` the definition table as the call leaves it.
\* A Definition record stores its definition in its slot; a Data record
\* with a slot is decoded with the slot's definition and yields nothing
\* when there is none; a record without a slot stands for a Data record
\* together with the definition of its kind.  A read where no record starts
\* throws.
ReadRecord(b, table, index) ==
    LET starts == {j \in 1..Len(b.records) :
                      b.b0 + SizeSum(b.records, j - 1) = index}
        rec == b.records[CHOOSE j \in starts : TRUE]
        none == [nextIndex |-> index, messageType |-> "", message |-> EmptyObj,
                 hasMessage |-> FALSE, throws |-> FALSE, messageTypes |-> table]
    IN  IF starts = {} THEN [none EXCEPT !.throws = TRUE]
        ELSE IF Has(rec, "defines")
        THEN [nextIndex |-> index + RecordSize(rec),
              messageType |-> rec.messageType, message |-> rec.message,
              hasMessage |-> TRUE, throws |-> FALSE,
              messageTypes |-> SetKey(table, rec.message.slot, rec.message)]
        ELSE IF Has(rec, "slot")
        THEN IF Has(table, rec.slot)
             THEN [nextIndex |-> index + RecordSize(rec),
                   messageType |-> table[rec.slot].kind,
                   message |-> DecodeWith(table[rec.slot], rec.message),
                   hasMessage |-> TRUE, throws |-> FALSE, messageTypes |-> table]
             ELSE [none EXCEPT !.nextIndex = index + RecordSize(rec)]
        ELSE [nextIndex |-> index + RecordSize(rec),
              messageType |-> rec.messageType, message |-> rec.message,
              hasMessage |-> ~Has(rec, "absent"),
              throws |-> Has(rec, "malformed"), messageTypes |-> table]

\* FIT.types.product[manufacturer][product], <<>> when there is no entry.
ProductName(manufacturer, product) ==
    IF manufacturer = <<"g", "a", "r", "m", "i", "n">> /\ product = 3121
    THEN <<<<"e", "d", "g", "e", "_", "5", "3", "0">>>>
    ELSE <<>>

\* case "device_info": the product name is filled in from the registry when
\* the message has none but has a manufacturer and a product code.
EnrichDevice(message) ==
    IF /\ ~(Has(message, "product_name") /\ message.product_name # <<>>)
       /\ Has(message, "manufacturer") /\ message.manufacturer # <<>>
       /\ Has(message, "product") /\ message.product # 0
       /\ ProductName(message.manufacturer, message.product) # <<>>
    THEN SetKey(message, "product_name",
                ProductName(message.manufacturer, message.product)[1])
    ELSE message

\* BucketOf with laps counted as sessions.
BucketOfLapAsSession(messageType) ==
    CASE messageType = "lap" -> "sessions"
      [] messageType = "session" -> "sessions"
      [] messageType = "workout_step" -> "workout_steps"
      [] messageType = "event" -> "events"
      [] messageType = "length" -> "lengths"
      [] messageType = "field_description" -> "field_descriptions"
      [] messageType = "device_info" -> "devices"
      [] messageType = "developer_data_id" -> "developer_data_ids"
      [] messageType = "dive_gas" -> "dive_gases"
      [] messageType = "course_point" -> "course_points"
      [] messageType = "sport" -> "sports"
      [] messageType = "file_id" -> "file_ids"
      [] messageType = "definition" -> "definitions"
      [] messageType = "monitoring" -> "monitors"
      [] messageType = "monitoring_info" -> "monitor_info"
      [] messageType = "stress_level" -> "stress"
      [] OTHER -> ""

\* The bucket a message kind is pushed to, "" for the kinds without one.
BucketOf(messageType) ==
    CASE messageType = "lap" -> "laps"
      [] messageType = "session" -> "sessions"
      [] messageType = "workout_step" -> "workout_steps"
      [] messageType = "event" -> "events"
      [] messageType = "length" -> "lengths"
      [] messageType = "field_description" -> "field_descriptions"
      [] messageType = "device_info" -> "devices"
      [] messageType = "developer_data_id" -> "developer_data_ids"
      [] messageType = "dive_gas" -> "dive_gases"
      [] messageType = "course_point" -> "course_points"
      [] messageType = "sport" -> "sports"
      [] messageType = "file_id" -> "file_ids"
      [] messageType = "definition" -> "definitions"
      [] messageType = "monitoring" -> "monitors"
      [] messageType = "monitoring_info" -> "monitor_info"
      [] messageType = "stress_level" -> "stress"
      [] OTHER -> ""

\* Dispatch with the default branch storing a message of the empty kind too.
DispatchEmptyKind(obj, messageType, message) ==
    IF BucketOf(messageType) # ""
    THEN [obj EXCEPT ![BucketOf(messageType)] =
             Append(@, IF messageType = "device_info"
                       THEN EnrichDevice(message) ELSE message)]
    ELSE [obj EXCEPT !.named = SetKey(@, messageType, message)]

\* The switch on messageType: the buckets after the message is filed.
Dispatch(obj, messageType, message) ==
    IF BucketOf(messageType) # ""
    THEN [obj EXCEPT ![BucketOf(messageType)] =
             Append(@, IF messageType = "device_info"
                       THEN EnrichDevice(message) ELSE message)]
    ELSE IF messageType # ""
    THEN [obj EXCEPT !.named = SetKey(@, messageType, message)]
    ELSE obj

\* case "event": the stop timestamp after the message.
NextLastStop(lastStop, messageType, message) ==
    IF /\ messageType = "event"
       /\ Has(message, "event") /\ message.event = "timer"
       /\ Has(message, "event_type") /\ message.event_type = "stop_all"
    THEN IF Has(message, "timestamp") THEN <<message.timestamp>> ELSE <<>>
    ELSE lastStop

\* case "event": the accumulator after the message; a timer start adds the
\* seconds since the stop timestamp, when there is one.
NextPausedTime(paused, lastStop, messageType, message) ==
    IF /\ messageType = "event"
       /\ Has(message, "event") /\ message.event = "timer"
       /\ Has(message, "event_type") /\ message.event_type = "start"
       /\ lastStop # <<>>
    THEN IF Has(message, "timestamp") /\ paused # NaN
         THEN paused + (message.timestamp - lastStop[1]) \div 1000
         ELSE NaN
    ELSE paused

\* ------------------------------------------------- end-of-stream finalization

\* Values whose JavaScript type varies are tagged: a number is [num |-> n],
\* a string [str |-> s], undefined [undef |-> TRUE]; any other record is an
\* object.  Truthy is JavaScript's truthiness of such a value.
TruthyTagged(v) ==
    IF Has(v, "num") THEN v.num # 0
    ELSE IF Has(v, "str") THEN v.str # ""
    ELSE ~Has(v, "undef")

TaggedFields == {"primaryBenefit", "pedalBalance"}

\* Truthiness of fitFileActivity[field].
Truthy(activity, field) ==
    /\ Has(activity, field)
    /\ IF field \in TaggedFields THEN TruthyTagged(activity[field])
       ELSE activity[field] # 0 /\ activity[field] # NaN

\* SessionDistance with the metres divided by 10000.
SessionDistancePerTenKm(sessions) ==
    IF SumBy(sessions, "total_distance") = <<>> THEN NaN
    ELSE MathRound(SumBy(sessions, "total_distance")[1], 1000)

\* fitFileActivity.distance: parseFloat((sumBy(total_distance) / 1000).toFixed(1)),
\* in tenths of a kilometre.
SessionDistance(sessions) ==
    IF SumBy(sessions, "total_distance") = <<>> THEN NaN
    ELSE MathRound(SumBy(sessions, "total_distance")[1], 100)

\* fitFileActivity.totalTime: Math.round(sumBy(total_elapsed_time)).
SessionTotalTime(sessions) ==
    IF SumBy(sessions, "total_elapsed_time") = <<>> THEN NaN
    ELSE MathRound(SumBy(sessions, "total_elapsed_time")[1], 1000)

\* The summary fields taken from the sessions and the session fields each
\* comes from (the `fields` map).
SessionFieldKeys ==
    [primaryBenefit |-> <<"primary_benefit">>,
     intensityFactor |-> <<"intensity_factor">>,
     tss |-> <<"training_stress_score">>,
     trainingLoad |-> <<"training_load">>,
     aerobicTrainingEffect |-> <<"total_training_effect">>,
     anaerobicTrainingEffect |-> <<"total_anaerobic_effect">>,
     pedalSmoothness |-> <<"avg_combined_pedal_smoothness",
                           "avg_left_pedal_smoothness",
                           "avg_right_pedal_smoothness">>,
     pedalTorqueEffect |-> <<"avg_left_torque_effectiveness",
                             "avg_right_torque_effectiveness">>,
     pedalBalance |-> <<"left_right_balance">>]

ArrayFields == {"pedalSmoothness", "pedalTorqueEffect"}

\* The value a session gives for a field, <<>> when it is null or undefined:
\* the mean of the values present for an array of keys, session[key] else.
SessionValue(session, field) ==
    LET keys == SessionFieldKeys[field]
        vals == MapField(<<session>>, keys[1])
                \o (IF Len(keys) > 1 THEN MapField(<<session>>, keys[2]) ELSE <<>>)
                \o (IF Len(keys) > 2 THEN MapField(<<session>>, keys[3]) ELSE <<>>)
    IN  IF field \in ArrayFields
        THEN IF vals = <<>> THEN <<>> ELSE <<SumSeq(vals) \div Len(vals)>>
        ELSE IF vals = <<>> THEN <<>>
        ELSE IF field = "primaryBenefit" THEN <<[num |-> vals[1]]>>
        ELSE vals

\* if (!fitFileActivity[field] && !_.isNil(value)) fitFileActivity[field] = value
MergeField(activity, session, field) ==
    IF ~Truthy(activity, field) /\ SessionValue(session, field) # <<>>
    THEN SetKey(activity, field, SessionValue(session, field)[1])
    ELSE activity

\* The inner loop: every field of one session.  A turn reads and writes only
\* its own key of the summary, so the turns are taken side by side.
MergeFields(activity, session) ==
    LET merged(f) == MergeField(activity, session, f)
    IN  [k \in DOMAIN activity
               \cup {f \in DOMAIN SessionFieldKeys : Has(merged(f), f)} |->
            IF k \in DOMAIN SessionFieldKeys THEN merged(k)[k] ELSE activity[k]]

RECURSIVE MergeSessions(_, _)
\* The outer loop: the sessions in stream order.
MergeSessions(activity, sessions) ==
    IF sessions = <<>> THEN activity
    ELSE MergeSessions(MergeFields(activity, Head(sessions)), Tail(sessions))

\* name.replace(/[\u{0080}-\u{FFFF}]/gu, ""): a name is its code points.
StripAboveAscii(name) == SelectSeq(name, LAMBDA c : c < 128 \/ c > 65535)

\* SportProfile with the last sport message taken, named or not.
SportProfileOfLast(activity, sports) ==
    IF sports = <<>> THEN activity
    ELSE SetKey(activity, "sportProfile",
                IF Has(sports[Len(sports)], "name")
                THEN SelectSeq(sports[Len(sports)].name,
                               LAMBDA c : c < 128 \/ c > 65535)
                ELSE <<>>)

\* if (sp.name)
NamedSport(sp) == Has(sp, "name") /\ sp.name # <<>>

\* for (let sp of fitObj.sports) if (sp.name) sportProfile = ...: every named
\* sport overwrites the profile, so the last one stays.
SportProfile(activity, sports) ==
    LET named == SelectSeq(sports, NamedSport)
    IN  IF named = <<>> THEN activity
        ELSE SetKey(activity, "sportProfile",
                    StripAboveAscii(named[Len(named)].name))

\* The block under `if (fitObj.sessions?.length > 0)`.
SessionBlock(activity, obj) ==
    IF Len(obj.sessions) > 0
    THEN SportProfile(
             MergeSessions(
                 SetKey(SetKey(activity, "distance", SessionDistance(obj.sessions)),
                        "totalTime", SessionTotalTime(obj.sessions)),
                 obj.sessions),
             obj.sports)
    ELSE activity

\* Math.round on trainingLoad, pedalSmoothness and pedalTorqueEffect when truthy.
RoundFields(activity, fieldSet) ==
    [k \in DOMAIN activity |->
        IF k \in fieldSet /\ Truthy(activity, k)
        THEN MathRound(activity[k], Unit) * Unit
        ELSE activity[k]]

\* WorkoutDetails with the name and notes of a workout message that has
\* neither written as empty.
WorkoutDetailsAlways(activity, obj) ==
    LET workout == IF Has(obj.named, "workout") THEN obj.named.workout ELSE EmptyObj
    IN  IF Has(obj.named, "workout")
        THEN SetKey(SetKey(activity, "workoutName",
                           IF Has(workout, "wkt_name") THEN workout.wkt_name
                           ELSE <<>>),
                    "workoutNotes",
                    IF Has(workout, "notes") THEN workout.notes ELSE <<>>)
        ELSE activity

\* workoutName and workoutNotes from fitObj.workout.
WorkoutDetails(activity, obj) ==
    LET workout == IF Has(obj.named, "workout") THEN obj.named.workout ELSE EmptyObj
        withName == IF Has(workout, "wkt_name") /\ workout.wkt_name # <<>>
                    THEN SetKey(activity, "workoutName", workout.wkt_name)
                    ELSE activity
    IN  IF Has(workout, "notes") /\ workout.notes # <<>>
        THEN SetKey(withName, "workoutNotes", workout.notes)
        ELSE withName

\* The decimal digits of a natural number, as characters.
Digit(n) == <<"0", "1", "2", "3", "4", "5", "6", "7", "8", "9">>[n + 1]

RECURSIVE NumberChars(_)
NumberChars(n) ==
    IF n < 10 THEN <<Digit(n)>> ELSE NumberChars(n \div 10) \o <<Digit(n % 10)>>

\* d.product_name || d.device_type || d.source_type || d.device_index, as the
\* template literal prints it.
DeviceMiddle(d) ==
    IF Has(d, "product_name") /\ d.product_name # <<>> THEN d.product_name
    ELSE IF Has(d, "device_type") /\ d.device_type # <<>> THEN d.device_type
    ELSE IF Has(d, "source_type") /\ d.source_type # <<>> THEN d.source_type
    ELSE IF Has(d, "device_index") THEN NumberChars(d.device_index)
    ELSE <<"u", "n", "d", "e", "f", "i", "n", "e", "d">>

\* GetDeviceString without the middle part.
GetDeviceStringNoMiddle(d) ==
    SelectSeq(
        (IF Has(d, "manufacturer") THEN d.manufacturer
         ELSE <<"u", "n", "d", "e", "f", "i", "n", "e", "d">>)
        \o <<".">>
        \o (IF Has(d, "serial_number") THEN NumberChars(d.serial_number)
            ELSE <<"u", "n", "d", "e", "f", "i", "n", "e", "d">>),
        LAMBDA c : c # "_" /\ c # " ")

\* getDeviceString: `${manufacturer}.${middle}.${serial_number}` without
\* underscores and whitespace.
GetDeviceString(d) ==
    SelectSeq(
        (IF Has(d, "manufacturer") THEN d.manufacturer
         ELSE <<"u", "n", "d", "e", "f", "i", "n", "e", "d">>)
        \o <<".">> \o DeviceMiddle(d) \o <<".">>
        \o (IF Has(d, "serial_number") THEN NumberChars(d.serial_number)
            ELSE <<"u", "n", "d", "e", "f", "i", "n", "e", "d">>),
        LAMBDA c : c # "_" /\ c # " ")

\* ValidDevice without the serial number.
ValidDeviceAnySerial(d) == Has(d, "manufacturer") /\ d.manufacturer # <<>>

\* const filter = (d) => d.manufacturer && d.serial_number
ValidDevice(d) ==
    /\ Has(d, "manufacturer") /\ d.manufacturer # <<>>
    /\ Has(d, "serial_number") /\ d.serial_number # 0

RECURSIVE UniqByDeviceString(_, _)
\* _.uniqBy(devices, getDeviceString): the first device of each identity.
UniqByDeviceString(devices, seen) ==
    IF devices = <<>> THEN <<>>
    ELSE IF GetDeviceString(Head(devices)) \in seen
         THEN UniqByDeviceString(Tail(devices), seen)
         ELSE <<Head(devices)>>
              \o UniqByDeviceString(Tail(devices),
                                    seen \cup {GetDeviceString(Head(devices))})

ValidDevices(obj) ==
    UniqByDeviceString(SelectSeq(obj.devices, ValidDevice), {})

HasBattery(d) == Has(d, "battery_status") /\ d.battery_status # ""

\* DeviceList with the battery statuses taken from every device-info message
\* that passes the filter.
DeviceListEveryBattery(activity, obj) ==
    IF Len(obj.devices) > 0
    THEN LET valid == ValidDevices(obj)
             battery == SelectSeq(SelectSeq(obj.devices, ValidDevice), HasBattery)
             withDevices ==
                 SetKey(activity, "devices",
                        [i \in 1..Len(valid) |-> GetDeviceString(valid[i])])
         IN  IF Len(battery) > 0
             THEN SetKey(withDevices, "deviceBattery",
                         [i \in 1..Len(battery) |->
                             [id |-> GetDeviceString(battery[i]),
                              status |-> battery[i].battery_status]])
             ELSE withDevices
    ELSE activity

\* devices and deviceBattery, when the file has device_info messages.
DeviceList(activity, obj) ==
    IF Len(obj.devices) > 0
    THEN LET valid == ValidDevices(obj)
             battery == SelectSeq(valid, HasBattery)
             withDevices ==
                 SetKey(activity, "devices",
                        [i \in 1..Len(valid) |-> GetDeviceString(valid[i])])
         IN  IF Len(battery) > 0
             THEN SetKey(withDevices, "deviceBattery",
                         [i \in 1..Len(battery) |->
                             [id |-> GetDeviceString(battery[i]),
                              status |-> battery[i].battery_status]])
             ELSE withDevices
    ELSE activity

PrimaryBenefits ==
    <<"None", "Recovery", "Base", "Tempo", "Threshold", "VO2Max", "Anaerobic",
      "Sprint">>

\* fitFileActivity.primaryBenefit = primaryBenefits[fitFileActivity.primaryBenefit]
\* when it is truthy; an index the table does not have gives undefined.
DecodePrimaryBenefit(activity) ==
    IF Truthy(activity, "primaryBenefit")
    THEN SetKey(activity, "primaryBenefit",
                IF /\ Has(activity.primaryBenefit, "num")
                   /\ activity.primaryBenefit.num \in 0..(Len(PrimaryBenefits) - 1)
                THEN [str |-> PrimaryBenefits[activity.primaryBenefit.num + 1]]
                ELSE [undef |-> TRUE])
    ELSE activity

\* DecodePedalBalance without the upper limit on the raw value.
DecodePedalBalanceAnyValue(activity) ==
    IF /\ Has(activity, "pedalBalance")
       /\ Has(activity.pedalBalance, "right") /\ activity.pedalBalance.right
       /\ Has(activity.pedalBalance, "value")
    THEN LET right == MathRound(activity.pedalBalance.value, 100)
         IN  SetKey(activity, "pedalBalance",
                    [str |-> "L " \o ToString(100 - right) \o "% / R "
                             \o ToString(right) \o "%"])
    ELSE DeleteKey(activity, "pedalBalance")

\* The L/R balance string, or the key deleted.
DecodePedalBalance(activity) ==
    IF /\ Has(activity, "pedalBalance")
       /\ Has(activity.pedalBalance, "right") /\ activity.pedalBalance.right
       /\ Has(activity.pedalBalance, "value") /\ activity.pedalBalance.value <= 10000
    THEN LET right == MathRound(activity.pedalBalance.value, 100)
         IN  SetKey(activity, "pedalBalance",
                    [str |-> "L " \o ToString(100 - right) \o "% / R "
                             \o ToString(right) \o "%"])
    ELSE DeleteKey(activity, "pedalBalance")

\* Everything parse does to the summary after the decode loop.
FinalizeSummary(activity, obj) ==
    DecodePedalBalance(
        DecodePrimaryBenefit(
            DeviceList(
                WorkoutDetails(
                    RoundFields(SessionBlock(activity, obj),
                                {"trainingLoad", "pedalSmoothness",
                                 "pedalTorqueEffect"}),
                    obj),
                obj)))

\* -------------------------------------------------------------- parse, steps

\* HeaderError without the file-type check.
HeaderErrorNoFileType(b) ==
    IF b.length < 12 THEN "File to small to be a FIT file"
    ELSE IF b.b0 # 14 /\ b.b0 # 12 THEN "Incorrect header size"
    ELSE ""

\* The outcome of the three format checks: "" or the message of the Error.
HeaderError(b) ==
    IF b.length < 12 THEN "File to small to be a FIT file"
    ELSE IF b.b0 # 14 /\ b.b0 # 12 THEN "Incorrect header size"
    ELSE IF b.fileType # ".FIT" THEN "Missing '.FIT' in header"
    ELSE ""

\* Lines 46-63: the format checks; parse throws before anything else.
ParseHeader ==
    /\ pc = "header"
    /\ IF HeaderError(blob) # ""
       THEN /\ thrown' = HeaderError(blob)
            /\ pc' = "failed"
       ELSE /\ pc' = "crc"
            /\ UNCHANGED thrown
    /\ UNCHANGED <<blob, supplied, fitFileActivity, warnings, loopIndex,
                   recordsRead, fitObj, lastStopTimestamp, pausedTime,
                   messageTypes>>
    /\ UNCHANGED beyondParse

\* The warnings of the two checksum comparisons.
CrcWarnings(b) ==
    (IF b.b0 = 14 /\ b.crcHeader # CalculateCRC(b, 0, 12)
     THEN <<"Header CRC mismatch">> ELSE <<>>)
    \o (IF b.crcFile # CalculateCRC(b, IF b.b0 = 12 THEN 0 ELSE b.b0, CrcStart(b))
        THEN <<"File CRC mismatch">> ELSE <<>>)

\* CrcError with a checksum mismatch treated as fatal.
CrcErrorStrict(b) == IF CrcWarnings(b) # <<>> THEN "CRC mismatch" ELSE ""

\* Lines 65-82: the Error the checksum comparisons throw: none, a mismatch
\* is only logged.
CrcError(b) == ""

\* Lines 65-111: both checksums are compared and a mismatch is logged; the
\* buckets, the cursor and the pause accounting are created.
ParseCrc ==
    /\ pc = "crc"
    /\ warnings' = warnings \o CrcWarnings(blob)
    /\ IF CrcError(blob) # ""
       THEN /\ thrown' = CrcError(blob)
            /\ pc' = "failed"
            /\ UNCHANGED <<fitObj, loopIndex, lastStopTimestamp, pausedTime,
                           messageTypes>>
       ELSE /\ fitObj' = EmptyFitObj
            /\ loopIndex' = blob.b0
            /\ lastStopTimestamp' = <<>>
            /\ pausedTime' = 0
            /\ messageTypes' = <<>>
            /\ pc' = "loop"
            /\ UNCHANGED thrown
    /\ UNCHANGED <<blob, supplied, fitFileActivity, recordsRead>>
    /\ UNCHANGED beyondParse

\* The locals of the decode loop when it starts (lines 84-111); `thrown` is
\* the Error that ended the loop, "" while there is none.
LoopStart(b) ==
    [loopIndex |-> b.b0, fitObj |-> EmptyFitObj, lastStopTimestamp |-> <<>>,
     pausedTime |-> 0, messageTypes |-> <<>>, thrown |-> ""]

\* The Error of a readRecord call that throws.
DecodeError == "Record decode error"

\* LoopStep with the cursor left where it is when readRecord returns no
\* message.
LoopStepNoAdvance(b, st) ==
    LET r == ReadRecord(b, st.messageTypes, st.loopIndex)
    IN  IF r.throws THEN [st EXCEPT !.thrown = DecodeError]
        ELSE IF ~r.hasMessage THEN st
        ELSE [loopIndex |-> r.nextIndex,
              messageTypes |-> r.messageTypes,
              fitObj |-> Dispatch(st.fitObj, r.messageType, r.message),
              lastStopTimestamp |->
                  NextLastStop(st.lastStopTimestamp, r.messageType, r.message),
              pausedTime |->
                  NextPausedTime(st.pausedTime, st.lastStopTimestamp,
                                 r.messageType, r.message),
              thrown |-> ""]

\* LoopStep with an empty definition table handed to every readRecord.
LoopStepFreshTable(b, st) ==
    LET r == ReadRecord(b, <<>>, st.loopIndex)
    IN  IF r.throws THEN [st EXCEPT !.thrown = DecodeError]
        ELSE IF ~r.hasMessage THEN [st EXCEPT !.loopIndex = r.nextIndex]
        ELSE [loopIndex |-> r.nextIndex,
              messageTypes |-> r.messageTypes,
              fitObj |-> Dispatch(st.fitObj, r.messageType, r.message),
              lastStopTimestamp |->
                  NextLastStop(st.lastStopTimestamp, r.messageType, r.message),
              pausedTime |->
                  NextPausedTime(st.pausedTime, st.lastStopTimestamp,
                                 r.messageType, r.message),
              thrown |-> ""]

\* One turn of the decode loop (lines 114-189) on the loop's locals.  The
\* call of readRecord is not inside a try block: when it throws, the turn
\* ends with the Error and the locals as they were.  The switch is under
\* `if (message)`.  The definition table is the one array of the call,
\* handed to every readRecord.
LoopStep(b, st) ==
    LET r == ReadRecord(b, st.messageTypes, st.loopIndex)
    IN  IF r.throws THEN [st EXCEPT !.thrown = DecodeError]
        ELSE IF ~r.hasMessage THEN [st EXCEPT !.loopIndex = r.nextIndex]
        ELSE [loopIndex |-> r.nextIndex,
              messageTypes |-> r.messageTypes,
              fitObj |-> Dispatch(st.fitObj, r.messageType, r.message),
              lastStopTimestamp |->
                  NextLastStop(st.lastStopTimestamp, r.messageType, r.message),
              pausedTime |->
                  NextPausedTime(st.pausedTime, st.lastStopTimestamp,
                                 r.messageType, r.message),
              thrown |-> ""]

\* Lines 113-190: one turn of the decode loop.
ParseRecord ==
    /\ pc = "loop"
    /\ loopIndex < CrcStart(blob)
    /\ LET st == LoopStep(blob, [loopIndex |-> loopIndex, fitObj |-> fitObj,
                                 lastStopTimestamp |-> lastStopTimestamp,
                                 pausedTime |-> pausedTime,
                                 messageTypes |-> messageTypes, thrown |-> ""])
       IN  /\ loopIndex' = st.loopIndex
           /\ messageTypes' = st.messageTypes
           /\ fitObj' = st.fitObj
           /\ lastStopTimestamp' = st.lastStopTimestamp
           /\ pausedTime' = st.pausedTime
           /\ thrown' = st.thrown
           /\ pc' = IF st.thrown # "" THEN "failed" ELSE pc
    /\ recordsRead' = recordsRead + 1
    /\ UNCHANGED <<blob, supplied, fitFileActivity, warnings>>
    /\ UNCHANGED beyondParse

\* ParseFinalize with the accumulator written to the summary.
ParseFinalizeWithPausedTime ==
    /\ pc = "loop"
    /\ ~(loopIndex < CrcStart(blob))
    /\ fitFileActivity' =
           SetKey(FinalizeSummary(fitFileActivity, fitObj), "pausedTime", pausedTime)
    /\ pc' = "done"
    /\ UNCHANGED <<blob, supplied, thrown, warnings, loopIndex, recordsRead,
                   fitObj, lastStopTimestamp, pausedTime, messageTypes>>
    /\ UNCHANGED beyondParse

\* Lines 192-316: the loop has ended; the summary is filled in.
ParseFinalize ==
    /\ pc = "loop"
    /\ ~(loopIndex < CrcStart(blob))
    /\ fitFileActivity' = FinalizeSummary(fitFileActivity, fitObj)
    /\ pc' = "done"
    /\ UNCHANGED <<blob, supplied, thrown, warnings, loopIndex, recordsRead,
                   fitObj, lastStopTimestamp, pausedTime, messageTypes>>
    /\ UNCHANGED beyondParse

RECURSIVE RunLoop(_, _)
\* while (loopIndex < crcStart): the locals when the loop ends.
RunLoop(b, st) ==
    IF st.thrown = "" /\ st.loopIndex < CrcStart(b)
    THEN RunLoop(b, LoopStep(b, st))
    ELSE st

\* parse as a function of its arguments: the Error it throws ("" if none)
\* and the destination summary when it ends.
ParseOutcome(b, dest) ==
    IF HeaderError(b) # "" THEN [thrown |-> HeaderError(b), summary |-> dest]
    ELSE IF CrcError(b) # "" THEN [thrown |-> CrcError(b), summary |-> dest]
    ELSE IF RunLoop(b, LoopStart(b)).thrown # ""
    THEN [thrown |-> RunLoop(b, LoopStart(b)).thrown, summary |-> dest]
    ELSE [thrown |-> "",
          summary |-> FinalizeSummary(dest, RunLoop(b, LoopStart(b)).fitObj)]

\* The locals of parse before it runs.
ParseLocals ==
    /\ thrown = ""
    /\ warnings = <<>>
    /\ loopIndex = 0
    /\ recordsRead = 0
    /\ fitObj = EmptyFitObj
    /\ lastStopTimestamp = <<>>
    /\ pausedTime = 0
    /\ messageTypes = <<>>

\* parse is called with a buffer and a destination summary.
ParseInitOn(blobs, summaries) ==
    /\ blob \in blobs
    /\ supplied \in summaries
    /\ fitFileActivity = supplied
    /\ pc = "header"
    /\ ParseLocals

ParseInit == ParseInitOn(Blobs, Summaries)

\* No parse is running.
ParseIdle ==
    /\ blob = MakeBlob(14, 12, ".FIT", <<>>, 0, 0)
    /\ supplied = NewSummary
    /\ fitFileActivity = supplied
    /\ pc = "idle"
    /\ ParseLocals
ParseNext == ParseHeader \/ ParseCrc \/ ParseRecord \/ ParseFinalize

\* ------------------------------------------------ FitParser.getMatchingActivity

\* The user whose activity is matched.
UserId == "u1"

\* Start time of the target, in seconds.
TargetStart == 100 * 1000

\* The stored summaries: start time and total time in seconds.
StoredPool ==
    {[id |-> "f1", userId |-> "u1", dateStart |-> TargetStart + 30, totalTime |-> 3620],
     [id |-> "f2", userId |-> "u1", dateStart |-> TargetStart + 60, totalTime |-> 3661],
     [id |-> "f3", userId |-> "u1", dateStart |-> TargetStart + 61, totalTime |-> 3600],
     [id |-> "f4", userId |-> "u2", dateStart |-> TargetStart, totalTime |-> 3600],
     [id |-> "f5", userId |-> "u1", dateStart |-> TargetStart - 60, totalTime |-> 3540]}

SeqsUpTo(S, n) == UNION {[1..k -> S] : k \in 0..n}

Stores ==
    {db \in {[garmin |-> g, wahoo |-> w] :
                g \in SeqsUpTo(StoredPool, MaxStored),
                w \in SeqsUpTo(StoredPool, MaxStored)} :
        Len(db.garmin) + Len(db.wahoo) <= MaxStored}

\* The device strings of a target; <<>> when the activity has none.
Devices ==
    {<<>>, <<"G", "a", "r", "m", "i", "n", " ", "E", "d", "g", "e">>,
     <<"W", "a", "h", "o", "o", " ", "B", "O", "L", "T">>}

Targets ==
    {[id |-> "s1", dateStart |-> TargetStart, totalTime |-> 3600, device |-> d] :
        d \in Devices}

\* String.toLowerCase, on the letters the device strings use.
ToLowerCase(chars) ==
    [i \in 1..Len(chars) |->
        CASE chars[i] = "G" -> "g" [] chars[i] = "W" -> "w" [] chars[i] = "E" -> "e"
          [] chars[i] = "B" -> "b" [] chars[i] = "O" -> "o" [] chars[i] = "L" -> "l"
          [] chars[i] = "T" -> "t" [] OTHER -> chars[i]]

\* String.includes
Includes(chars, part) ==
    \E i \in 0..(Len(chars) - Len(part)) :
        \A j \in 1..Len(part) : chars[i + j] = part[j]

\* The characters of a source name.
SourceChars(src) ==
    CASE src = "garmin" -> <<"g", "a", "r", "m", "i", "n">>
      [] src = "wahoo" -> <<"w", "a", "h", "o", "o">>
      [] OTHER -> <<"a", "n", "y">>

\* activity.device?.toLowerCase().includes(source)
DeviceMentions(activity, src) ==
    activity.device # <<>> /\ Includes(ToLowerCase(activity.device), SourceChars(src))

\* dayjs's minute, in seconds.
Minute == 60

\* MatchWhere without the owner predicate.
MatchWhereAnyUser(userId, activity) ==
    <<<<"dateStart", ">=", activity.dateStart - 1 * Minute>>,
      <<"dateStart", "<=", activity.dateStart + 1 * Minute>>>>

\* The query: the user's summaries that start within a minute of the target.
MatchWhere(userId, activity) ==
    <<<<"userId", "==", userId>>,
      <<"dateStart", ">=", activity.dateStart - 1 * Minute>>,
      <<"dateStart", "<=", activity.dateStart + 1 * Minute>>>>

\* One predicate of a query on one document.
Satisfies(doc, clause) ==
    /\ Has(doc, clause[1])
    /\ CASE clause[2] = "==" -> doc[clause[1]] = clause[3]
         [] clause[2] = ">=" -> doc[clause[1]] >= clause[3]
         [] clause[2] = "<=" -> doc[clause[1]] <= clause[3]
         [] OTHER -> FALSE

\* database.search(collection, where): the documents of the collection that
\* satisfy every predicate, in the collection's order.
DatabaseSearch(db, collection, query) ==
    SelectSeq(db[collection],
              LAMBDA doc : \A i \in 1..Len(query) : Satisfies(doc, query[i]))

\* RetryDelay with the sleep left out.
RetryDelayNone == RetryInterval * 0

\* await jaul.io.sleep(settings.axios.retryInterval * 2)
RetryDelay == RetryInterval * 2

\* Seconds the total times may differ.
TimeTolerance == 60

\* FindByTotalTime falling back to the first candidate.
FindByTotalTimeOrFirst(list, activity) ==
    LET hits == {i \in 1..Len(list) :
                    /\ list[i].totalTime >= activity.totalTime - TimeTolerance
                    /\ list[i].totalTime <= activity.totalTime + TimeTolerance}
    IN  IF list = <<>> THEN 0
        ELSE IF hits = {} THEN 1
        ELSE CHOOSE i \in hits : \A j \in hits : i <= j

\* activities.find((a) => a.totalTime >= minTime && a.totalTime <= maxTime):
\* the index of the first such candidate, 0 when there is none.
FindByTotalTime(list, activity) ==
    LET minTime == activity.totalTime - TimeTolerance
        maxTime == activity.totalTime + TimeTolerance
        hits == {i \in 1..Len(list) :
                    list[i].totalTime >= minTime /\ list[i].totalTime <= maxTime}
    IN  IF hits = {} THEN 0 ELSE CHOOSE i \in hits : \A j \in hits : i <= j

\* Lines 386-406: what the call returns and its last log line.  With no
\* candidate in the tolerance, `result` is undefined and the warning's text
\* reads result.totalTime: that throws a TypeError, which the catch block
\* logs as an error, and the call returns undefined.
EvaluateCandidates(list, activity) ==
    IF Len(list) = 0
    THEN [returned |-> [kind |-> "null"], logged |-> "debug"]
    ELSE IF FindByTotalTime(list, activity) = 0
    THEN [returned |-> [kind |-> "undefined"], logged |-> "error"]
    ELSE [returned |-> [kind |-> "activity",
                        activity |-> list[FindByTotalTime(list, activity)]],
          logged |-> "info"]

\* One database.search: the candidates it returns, and its entry in the log.
SearchResult(collection) == DatabaseSearch(store, collection, where)

LogQuery(collection) ==
    Append(queries, [collection |-> collection, where |-> where, at |-> clock,
                     result |-> SearchResult(collection), docs |-> store[collection]])

\* Lines 360-369: the default source and the query.
MatchStart ==
    /\ mpc = "start"
    /\ source' = IF source = "" THEN "any" ELSE source
    /\ where' = MatchWhere(UserId, target)
    /\ mpc' = IF source' = "any" THEN "searchGarmin" ELSE "search"
    /\ UNCHANGED <<store, target, activities, queries, clock, wakeAt, returned,
                   logged>>
    /\ UNCHANGED beyondMatch

\* Line 375: const fromGarmin = await database.search("garmin", where)
SearchGarmin ==
    /\ mpc = "searchGarmin"
    /\ activities' = SearchResult("garmin")
    /\ queries' = LogQuery("garmin")
    /\ mpc' = "searchWahoo"
    /\ UNCHANGED <<store, target, source, where, clock, wakeAt, returned, logged>>
    /\ UNCHANGED beyondMatch

\* Lines 376-377: the wahoo candidates follow the garmin ones.
SearchWahoo ==
    /\ mpc = "searchWahoo"
    /\ activities' = activities \o SearchResult("wahoo")
    /\ queries' = LogQuery("wahoo")
    /\ mpc' = "evaluate"
    /\ UNCHANGED <<store, target, source, where, clock, wakeAt, returned, logged>>
    /\ UNCHANGED beyondMatch

\* Lines 379-381: the query of a single vendor; the call sleeps when it got
\* nothing and the target's device names the vendor.
SearchSource ==
    /\ mpc = "search"
    /\ activities' = SearchResult(source)
    /\ queries' = LogQuery(source)
    /\ IF Len(activities') = 0 /\ DeviceMentions(target, source)
       THEN /\ mpc' = "sleep"
            /\ wakeAt' = clock + RetryDelay
       ELSE /\ mpc' = "evaluate"
            /\ UNCHANGED wakeAt
    /\ UNCHANGED <<store, target, source, where, clock, returned, logged>>
    /\ UNCHANGED beyondMatch

\* Line 382: the sleep is over, the same query once more.
RetrySearch ==
    /\ mpc = "sleep"
    /\ clock >= wakeAt
    /\ activities' = SearchResult(source)
    /\ queries' = LogQuery(source)
    /\ mpc' = "evaluate"
    /\ UNCHANGED <<store, target, source, where, clock, wakeAt, returned, logged>>
    /\ UNCHANGED beyondMatch

\* Lines 386-406: the candidate is chosen and the call returns.
Evaluate ==
    /\ mpc = "evaluate"
    /\ returned' = EvaluateCandidates(activities, target).returned
    /\ logged' = EvaluateCandidates(activities, target).logged
    /\ mpc' = "returned"
    /\ UNCHANGED <<store, target, source, where, activities, queries, clock, wakeAt>>
    /\ UNCHANGED beyondMatch

\* A FIT file is processed and saved while the call waits.
Ingest ==
    /\ mpc \in {"searchWahoo", "sleep"}
    /\ Len(store.garmin) + Len(store.wahoo) < MaxStored
    /\ \E collection \in {"garmin", "wahoo"}, doc \in StoredPool :
           store' = [store EXCEPT ![collection] = Append(@, doc)]
    /\ UNCHANGED <<target, source, mpc, where, activities, queries, clock, wakeAt,
                   returned, logged>>
    /\ UNCHANGED beyondMatch

\* Time passes.
Tick ==
    /\ mpc # "returned"
    /\ clock < MaxClock
    /\ clock' = clock + 1
    /\ UNCHANGED <<store, target, source, mpc, where, activities, queries, wakeAt,
                   returned, logged>>
    /\ UNCHANGED beyondMatch

\* The matcher before a call.
MatchIdle ==
    /\ mpc = "start"
    /\ where = <<>>
    /\ activities = <<>>
    /\ queries = <<>>
    /\ clock = 0
    /\ wakeAt = 0
    /\ returned = [kind |-> "none"]
    /\ logged = ""

MatchInit ==
    /\ store \in Stores
    /\ target \in Targets
    /\ source \in {"", "any", "garmin", "wahoo"}
    /\ MatchIdle

MatchNext ==
    \/ MatchStart
    \/ SearchGarmin
    \/ SearchWahoo
    \/ SearchSource
    \/ RetrySearch
    \/ Evaluate
    \/ Ingest
    \/ Tick

\* ----------------------------------------------- sport and workout messages

\* Sport messages: names as code points ("Road"; "Gr", U+00E9, "v", with a
\* code point above 127), an empty name, and no name.
SportRoad == [messageType |-> "sport", message |-> [name |-> <<82, 111, 97, 100>>]]
SportGravel ==
    [messageType |-> "sport", message |-> [name |-> <<71, 114, 233, 118>>]]
SportEmptyName == [messageType |-> "sport", message |-> [name |-> <<>>]]
SportNoName == [messageType |-> "sport", message |-> [sub_sport |-> 1]]

SportPool == {SessionFull, SportRoad, SportGravel, SportEmptyName, SportNoName}

\* Workout messages: with a name and notes, with notes only, with neither;
\* and two messages of another kind that has no bucket.
WorkoutIntervals ==
    [messageType |-> "workout",
     message |-> [wkt_name |-> <<"4", "x", "8">>, notes |-> <<"h", "a", "r", "d">>]]
WorkoutNotesOnly ==
    [messageType |-> "workout", message |-> [notes |-> <<"e", "a", "s", "y">>]]
WorkoutBare == [messageType |-> "workout", message |-> [num_valid_steps |-> 3]]
HrvLater == [messageType |-> "hrv", message |-> [time |-> 900]]

WorkoutPool ==
    {SessionFull, WorkoutIntervals, WorkoutNotesOnly, WorkoutBare, HrvMsg,
     HrvLater}

\* A summary that already has a sport profile, a workout name and workout
\* notes.
NamedSummary ==
    [id |-> "a1", userId |-> "u1", sportProfile |-> <<84, 114, 97, 105, 108>>,
     workoutName |-> <<"o", "l", "d">>, workoutNotes |-> <<"n", "o", "t", "e">>]

\* ------------------------------------------- the data length of the header

\* byte << 24, a signed 32-bit integer: negative when the top bit is set.
ShiftLeft24(byte) ==
    IF byte >= 128 THEN (byte - 256) * 16777216 ELSE byte * 16777216

\* blob[4] + (blob[5] << 8) + (blob[6] << 16) + (blob[7] << 24)
DataLength(bytes) ==
    bytes[1] + bytes[2] * 256 + bytes[3] * 65536 + ShiftLeft24(bytes[4])

\* A buffer whose bytes 4-7 are not the size of its data section, of a size
\* that puts the trailer offset outside the buffer: the file CRC read there,
\* blob[crcStart] + (blob[crcStart + 1] << 8), is undefined + 0.
WithDataLength(b, bytes) ==
    [b EXCEPT !.dataLength = DataLength(bytes), !.crcFile = NaN]

\* Bytes 4-7 for a data length of 1000, and for one with the top bit set.
LongLength == <<232, 3, 0, 0>>
TopBitLength == <<0, 0, 0, 255>>

LengthPool == {SessionFull, LapMsg}

\* Buffers that pass the format checks: with bytes 4-7 as the size of the data
\* section, larger than the buffer, and with the top bit set.
LengthBlobs ==
    PlainBlobs(LengthPool)
    \cup {WithDataLength(b, bytes) :
             b \in PlainBlobs(LengthPool), bytes \in {LongLength, TopBitLength}}

\* ------------------------------------------- records with a local slot

\* The layout a Definition record declares for a slot: the message kind its
\* global message number names ("" when the number is unknown) and the
\* fields it lays out.
SessionLayout ==
    [slot |-> 0, kind |-> "session",
     fields |-> {"total_distance", "total_elapsed_time"}]
LapLayout == [slot |-> 0, kind |-> "lap", fields |-> {"total_distance"}]
ShortSessionLayout ==
    [slot |-> 1, kind |-> "session", fields |-> {"total_distance"}]
UnknownLayout == [slot |-> 1, kind |-> "", fields |-> {"total_distance"}]

\* A Definition record.
DefinitionOf(layout) ==
    [messageType |-> "definition", message |-> layout, defines |-> TRUE]

\* A Data record for a slot, with the values its bytes hold.
DataOf(s, raw) == [messageType |-> "", message |-> raw, slot |-> s]

\* Definition records for slots 0 and 1, two of them for the same slot, and
\* Data records for both slots.
SlotPool ==
    {DefinitionOf(SessionLayout), DefinitionOf(LapLayout),
     DefinitionOf(ShortSessionLayout), DefinitionOf(UnknownLayout),
     DataOf(0, [total_distance |-> 10000, total_elapsed_time |-> 3600400]),
     DataOf(1, [total_distance |-> 5000, total_elapsed_time |-> 1800000])}

\* ------------------------------------------------- two calls of parse

\* The records of the buffers two calls are given.
PairPool == {SessionFull, DeviceEdge}

\* The buffers two calls are given: well-formed ones and one with a wrong
\* file type.
PairBlobs ==
    PlainBlobs(PairPool) \cup {MakeBlob(14 + 2, 14, "RIFF", <<>>, 0, 0)}

\* A call before its first step.
RunOf(b, dest) ==
    [blob |-> b, supplied |-> dest, fitFileActivity |-> dest, pc |-> "header",
     thrown |-> "", st |-> LoopStart(b)]

\* LocalsOf with the buckets of the first call used by every call.
LocalsOfShared(rs, i) == [rs[i].st EXCEPT !.fitObj = rs[1].st.fitObj]

\* Lines 84-111: the buckets, the cursor, the definition tables and the
\* pause accounting are locals of the call; a turn of the loop of call i
\* works on those of call i.
LocalsOf(rs, i) == rs[i].st

\* Lines 46-63 in call i.
PairHeader(i) ==
    /\ runs[i].pc = "header"
    /\ runs' = [runs EXCEPT
                   ![i].thrown = HeaderError(runs[i].blob),
                   ![i].pc = IF HeaderError(runs[i].blob) # ""
                             THEN "failed" ELSE "crc"]
    /\ UNCHANGED <<parseVars, matchVars, saveVars, restVars>>

\* PairCrc with the locals of call i starting from the buckets the other
\* call has filled.
PairCrcInherit(i) ==
    /\ runs[i].pc = "crc"
    /\ runs' = [runs EXCEPT
                   ![i].st = [LoopStart(runs[i].blob) EXCEPT
                                 !.fitObj = runs[3 - i].st.fitObj],
                   ![i].pc = "loop"]
    /\ UNCHANGED <<parseVars, matchVars, saveVars, restVars>>

\* Lines 65-111 in call i: the locals are created.
PairCrc(i) ==
    /\ runs[i].pc = "crc"
    /\ runs' = [runs EXCEPT ![i].st = LoopStart(runs[i].blob),
                            ![i].pc = "loop"]
    /\ UNCHANGED <<parseVars, matchVars, saveVars, restVars>>

\* Lines 113-190 in call i: one turn of the decode loop.
PairRecord(i) ==
    /\ runs[i].pc = "loop"
    /\ runs[i].st.loopIndex < CrcStart(runs[i].blob)
    /\ LET st == LoopStep(runs[i].blob, LocalsOf(runs, i))
       IN  runs' = [runs EXCEPT
                       ![i].st = st,
                       ![i].thrown = st.thrown,
                       ![i].pc = IF st.thrown # "" THEN "failed" ELSE "loop"]
    /\ UNCHANGED <<parseVars, matchVars, saveVars, restVars>>

\* Lines 192-316 in call i.
PairFinalize(i) ==
    /\ runs[i].pc = "loop"
    /\ ~(runs[i].st.loopIndex < CrcStart(runs[i].blob))
    /\ runs' = [runs EXCEPT
                   ![i].fitFileActivity =
                       FinalizeSummary(runs[i].fitFileActivity,
                                       LocalsOf(runs, i).fitObj),
                   ![i].pc = "done"]
    /\ UNCHANGED <<parseVars, matchVars, saveVars, restVars>>

\* Two calls are made, each with a buffer and a destination summary.
PairInit ==
    \E b1 \in PairBlobs, b2 \in PairBlobs, d1 \in Summaries, d2 \in Summaries :
        runs = <<RunOf(b1, d1), RunOf(b2, d2)>>

PairNext ==
    \E i \in {1, 2} :
        \/ PairHeader(i)
        \/ PairCrc(i)
        \/ PairRecord(i)
        \/ PairFinalize(i)

\* No pair of calls is running.
PairUnused == runs = <<>>

\* ------------------------------------------------ saveProcessedActivity

\* settings[source].maxCacheDuration, in seconds.
MaxCacheDuration(collection) == IF collection = "garmin" THEN 5 ELSE 7

\* The summaries a caller saves: without an expiry and with one, which may
\* be earlier or later than the default.
SavedPool ==
    {[id |-> i, userId |-> UserId] : i \in {"a1", "a2"}}
    \cup {[id |-> i, userId |-> UserId, dateExpiry |-> e] :
             i \in {"a1", "a2"}, e \in {1, 9}}

\* `activity-${activity.id}`
ActivityKey(activity) == "activity-" \o activity.id

\* The database before the call: empty, or with an older document under
\* the key of activity a1.
InitialDocuments ==
    {[garmin |-> <<>>, wahoo |-> <<>>],
     [garmin |-> ("activity-a1" :> [id |-> "a1", userId |-> UserId,
                                     dateExpiry |-> 2]),
      wahoo |-> <<>>]}

\* database.set(collection, document, key): the document is stored under the
\* key and replaces the one that was there.
DatabaseSet(docs, collection, document, key) ==
    [docs EXCEPT ![collection] = SetKey(@, key, document)]

\* WithExpiry with the expiry set whether or not the caller set one.
WithExpiryAlways(activity, collection, now) ==
    SetKey(activity, "dateExpiry", now + MaxCacheDuration(collection))

\* Lines 417-419: the expiry defaults to now plus the cache duration of the
\* source.
WithExpiry(activity, collection, now) ==
    IF ~Has(activity, "dateExpiry")
    THEN SetKey(activity, "dateExpiry", now + MaxCacheDuration(collection))
    ELSE activity

\* Lines 416-419: the default expiry.
SaveExpiry ==
    /\ spc = "start"
    /\ saveActivity' = WithExpiry(saveActivity, saveSource, clock)
    /\ spc' = "set"
    /\ UNCHANGED <<saveSource, saveArg, documents, saveRaised, saveLogged>>
    /\ UNCHANGED <<parseVars, matchVars, pairVars, restVars>>

\* Lines 421-427: the write, which may fail; the Error is caught and logged.
SaveSet ==
    /\ spc = "set"
    /\ \E ok \in BOOLEAN :
           IF ok
           THEN /\ documents' = DatabaseSet(documents, saveSource, saveActivity,
                                            ActivityKey(saveActivity))
                /\ saveLogged' = "info"
           ELSE /\ saveLogged' = "error"
                /\ UNCHANGED documents
    /\ spc' = "done"
    /\ UNCHANGED <<saveSource, saveArg, saveActivity, saveRaised>>
    /\ UNCHANGED <<parseVars, matchVars, pairVars, restVars>>

\* saveProcessedActivity is called with a source and a summary.
SaveInit ==
    /\ saveSource \in {"garmin", "wahoo"}
    /\ saveArg \in SavedPool
    /\ saveActivity = saveArg
    /\ documents \in InitialDocuments
    /\ spc = "start"
    /\ saveRaised = ""
    /\ saveLogged = ""

SaveNext == SaveExpiry \/ SaveSet

\* No save is running.
SaveUnused ==
    /\ saveSource = "garmin"
    /\ saveArg = NewSummary
    /\ saveActivity = NewSummary
    /\ documents = [garmin |-> <<>>, wahoo |-> <<>>]
    /\ spc = "idle"
    /\ saveRaised = ""
    /\ saveLogged = ""

\* ------------------------------------------ GearWear.processRecentActivities

\* The executions of processRecentActivities that may be in flight together.
Executions == {1, 2}

\* settings.functions.batchSize: the users processed together.
BatchSize == 2

\* The last day the clock reaches.
MaxDay == 3

\* dayjs's dayOfYear of a day counted from the start of a 365 days year.
DayOfYear(day) == day % 365

\* The user ids database.search("gearwear") may list, sorted by user id.
UserIdLists == {<<>>, <<"u1">>, <<"u1", "u2">>}

\* What processForUser does with one user: users.getById throws, the user is
\* suspended, the user has no activity in the window, or
\* processUserActivities returns a count.
UserOutcomes == {"throws", "suspended", "outside", "none", "one"}

\* The activities an outcome adds to activityCount.
CountOf(outcome) == IF outcome = "one" THEN 1 ELSE 0

\* Whether an outcome adds to userCount.
Counted(outcome) == outcome \in {"none", "one"}

\* No "gearwear" document: what database.appState.get gives is falsy.
NoState ==
    [exists |-> FALSE, processing |-> FALSE, dateLastProcessed |-> 0,
     recentActivityCount |-> 0, recentUserCount |-> 0]

\* A stored "gearwear" document; a field the document lacks reads as its
\* falsy value.
StoredState(processing, date, count) ==
    [exists |-> TRUE, processing |-> processing, dateLastProcessed |-> date,
     recentActivityCount |-> count, recentUserCount |-> count]

\* The stored states an execution may find once GearWear.init has run: no
\* document, a run of an earlier day, a run of today with or without
\* activities, and a flag a run of today left set.
StoredStates ==
    {NoState, StoredState(FALSE, 0, 0), StoredState(FALSE, 1, 1),
     StoredState(FALSE, 1, 0), StoredState(TRUE, 1, 1)}

\* database.appState.set with {processing: flag}: the other fields are kept.
SetProcessing(stored, flag) ==
    [stored EXCEPT !.exists = TRUE, !.processing = flag]

\* An execution that was not started; marked and cleared record that the
\* execution wrote the flag as true and, later, as false.
IdleExec ==
    [pc |-> "idle", state |-> NoState, today |-> 0, userIds |-> <<>>,
     activityCount |-> 0, userCount |-> 0, marked |-> FALSE,
     cleared |-> FALSE]

\* Where the initial check of lines 409-422 sends an execution that read
\* state on day today.
AfterCheck(state, today) ==
    IF state.exists /\ state.processing THEN "aborted"
    ELSE IF /\ state.exists
            /\ state.dateLastProcessed # 0
            /\ DayOfYear(state.dateLastProcessed) = DayOfYear(today)
            /\ state.recentActivityCount > 0
         THEN "skipped"
         ELSE "mark"

\* An execution is called: it reads the stored state (line 402) and checks it,
\* or the read throws and the catch block is entered.
ProcGet(e) ==
    /\ execs[e].pc = "idle"
    /\ \E ok \in BOOLEAN :
        execs' = [execs EXCEPT ![e] =
            IF ok
            THEN [@ EXCEPT !.state = appState, !.today = procDay,
                           !.pc = AfterCheck(appState, procDay)]
            ELSE [@ EXCEPT !.today = procDay, !.pc = "catch"]]
    /\ UNCHANGED <<appState, procDay, beyondProc>>

\* The execution that passed the check sets the flag (line 426).
ProcMark(e) ==
    /\ execs[e].pc = "mark"
    /\ \E ok \in BOOLEAN :
        IF ok
        THEN /\ appState' = SetProcessing(appState, TRUE)
             /\ execs' = [execs EXCEPT ![e] =
                    [@ EXCEPT !.pc = "search", !.marked = TRUE]]
        ELSE /\ execs' = [execs EXCEPT ![e] = [@ EXCEPT !.pc = "catch"]]
             /\ UNCHANGED appState
    /\ UNCHANGED <<procDay, beyondProc>>

\* The configurations are listed (lines 434-435), or the search throws.
ProcSearch(e) ==
    /\ execs[e].pc = "search"
    /\ \/ \E ids \in UserIdLists :
            execs' = [execs EXCEPT ![e] =
                [@ EXCEPT !.userIds = ids,
                          !.pc = IF ids = <<>> THEN "finish" ELSE "users"]]
       \/ execs' = [execs EXCEPT ![e] = [@ EXCEPT !.pc = "catch"]]
    /\ UNCHANGED <<appState, procDay, beyondProc>>

\* The user ids of the next batch.
BatchOf(ids) == SubSeq(ids, 1, IF Len(ids) < BatchSize THEN Len(ids) ELSE BatchSize)

\* The user ids left after the next batch.
AfterBatch(ids) == SubSeq(ids, Len(BatchOf(ids)) + 1, Len(ids))

\* The sum of CountOf over the outcomes of a batch.
RECURSIVE BatchActivities(_)
BatchActivities(outcomes) ==
    IF outcomes = <<>> THEN 0
    ELSE CountOf(Head(outcomes)) + BatchActivities(Tail(outcomes))

\* The outcomes of a batch that add to userCount.
BatchUsers(outcomes) ==
    Cardinality({i \in DOMAIN outcomes : Counted(outcomes[i])})

\* Mutant: the batch is processed and the user ids stay as they were.
AfterBatchKept(ids) == ids

\* One batch of users is processed (lines 471-473): what a user throws is
\* caught by processForUser, so the batch always settles.
ProcBatch(e) ==
    /\ execs[e].pc = "users"
    /\ \E outcomes \in [DOMAIN BatchOf(execs[e].userIds) -> UserOutcomes] :
        execs' = [execs EXCEPT ![e] =
            [@ EXCEPT !.userIds = AfterBatch(@),
                      !.activityCount = @ + BatchActivities(outcomes),
                      !.userCount = @ + BatchUsers(outcomes),
                      !.pc = IF AfterBatch(execs[e].userIds) = <<>>
                             THEN "finish" ELSE "users"]]
    /\ UNCHANGED <<appState, procDay, beyondProc>>

\* The state the execution stores when it completes (lines 476-481).
FinalState(exec) ==
    [exists |-> TRUE, processing |-> FALSE, dateLastProcessed |-> exec.today,
     recentActivityCount |-> exec.activityCount,
     recentUserCount |-> exec.userCount]

\* The final state is stored (line 483), or the write throws.
ProcFinish(e) ==
    /\ execs[e].pc = "finish"
    /\ \E ok \in BOOLEAN :
        IF ok
        THEN /\ appState' = FinalState(execs[e])
             /\ execs' = [execs EXCEPT ![e] =
                    [@ EXCEPT !.pc = "done", !.cleared = TRUE]]
        ELSE /\ execs' = [execs EXCEPT ![e] = [@ EXCEPT !.pc = "catch"]]
             /\ UNCHANGED appState
    /\ UNCHANGED <<procDay, beyondProc>>

\* Mutant: the catch block logs and writes nothing.
ProcCatchLogOnly(e) ==
    /\ execs[e].pc = "catch"
    /\ execs' = [execs EXCEPT ![e] = [@ EXCEPT !.pc = "failed"]]
    /\ UNCHANGED <<appState, procDay, beyondProc>>

\* The catch block clears the flag (line 486); when that write throws, the
\* execution rejects and the flag stays as it was.
ProcCatch(e) ==
    /\ execs[e].pc = "catch"
    /\ \E ok \in BOOLEAN :
        IF ok
        THEN /\ appState' = SetProcessing(appState, FALSE)
             /\ execs' = [execs EXCEPT ![e] =
                    [@ EXCEPT !.pc = "failed", !.cleared = TRUE]]
        ELSE /\ execs' = [execs EXCEPT ![e] = [@ EXCEPT !.pc = "rejected"]]
             /\ UNCHANGED appState
    /\ UNCHANGED <<procDay, beyondProc>>

\* Where an execution that returned or rejected is.
ProcEnded == {"aborted", "skipped", "done", "failed", "rejected"}

\* A day passes once the executions of the day are over; the next day's
\* executions may then be called.
ProcNextDay ==
    /\ procDay < MaxDay
    /\ \A e \in Executions : execs[e].pc \in ProcEnded \cup {"idle"}
    /\ procDay' = procDay + 1
    /\ execs' = [e \in Executions |-> IdleExec]
    /\ UNCHANGED <<appState, beyondProc>>

\* A step of one execution.
ProcStep(e) ==
    \/ ProcGet(e)
    \/ ProcMark(e)
    \/ ProcSearch(e)
    \/ ProcBatch(e)
    \/ ProcFinish(e)
    \/ ProcCatch(e)

ProcNext ==
    \/ \E e \in Executions : ProcStep(e)
    \/ ProcNextDay

\* The executions of day 1 are about to be called on a stored state.
ProcInit ==
    /\ appState \in StoredStates
    /\ procDay = 1
    /\ execs = [e \in Executions |-> IdleExec]

\* No execution of processRecentActivities was called.
ProcUnused ==
    /\ appState = NoState
    /\ procDay = 0
    /\ execs = [e \in Executions |-> IdleExec]

\* ------------------------------- GearWear.updateTracking, notify, resetTracking

\* The ticks of a calendar day: the clock's grain.
DayTicks == 2

\* settings.gearwear.reminderDays.
ReminderDays == 1

\* settings.gearwear.reminderThreshold, which GearWear.init requires above 1.
ReminderThreshold == 2

\* The last tick the clock reaches, and the calls made at most.
MaxTick == 4
MaxGearCalls == 4

\* A date that is not set (null or undefined).
NoDate == -1

\* The calendar day a tick falls on.
DayOf(tick) == tick \div DayTicks

\* now.subtract(settings.gearwear.reminderDays, "days").
MinReminderDate(now) == now - ReminderDays * DayTicks

\* Math.round(value * 10) / 10 of a whole number.
RoundTenth(value) == MathRound(value * 10, 1) \div 10

\* A component with the fields validate checks, not tracked yet and stored
\* without a history array.
Component(alertDistance, alertTime, preAlertPercent, disabled) ==
    [name |-> "chain", currentDistance |-> 0, currentTime |-> 0,
     activityCount |-> 0, alertDistance |-> alertDistance,
     alertTime |-> alertTime, preAlertPercent |-> preAlertPercent,
     datePreAlertSent |-> NoDate, dateAlertSent |-> NoDate,
     hasHistory |-> FALSE, history |-> <<>>, disabled |-> disabled]

\* The components the calls are made on: alerts by distance, by time, by
\* both, with and without a pre-alert, and a disabled component.
ComponentPool ==
    {Component(100, 0, 50, FALSE), Component(0, 72000, 50, FALSE),
     Component(100, 72000, 50, FALSE), Component(100, 72000, 0, FALSE),
     Component(100, 0, 50, TRUE)}

\* A configuration that was never updated.
ConfigOf(component) ==
    [id |-> "b1", component |-> component, updating |-> FALSE,
     lastUpdate |-> [set |-> FALSE, date |-> NoDate, activities |-> <<>>,
                     distance |-> 0, time |-> 0]]

\* The users: with or without an email, with or without privacy mode.
GearUsers == [email : BOOLEAN, privacyMode : BOOLEAN]

\* The activities of the gear: two rides, one that isActivityIgnored drops
\* and one with neither distance nor moving time.
Ride(id, distance, movingTime, dateStart, ignored) ==
    [id |-> id, distance |-> distance, movingTime |-> movingTime,
     dateStart |-> dateStart, ignored |-> ignored]

FirstRide == Ride(1, 60, 40000, 1, FALSE)
SecondRide == Ride(2, 120, 80000, 3, FALSE)
IgnoredRide == Ride(3, 30, 20000, 1, TRUE)

ActivityIds == {1, 2, 3}

\* The activity lists a call may be passed, sorted by dateStart.
ActivityLists ==
    {<<>>, <<FirstRide>>, <<SecondRide>>, <<FirstRide, SecondRide>>,
     <<IgnoredRide, SecondRide>>, <<FirstRide, IgnoredRide>>}

\* Whether a date is set and after another.
SetAndAfter(date, other) == date # NoDate /\ date > other

\* Mutant: notify without the check of a recent alert.
NotifyEveryTime(user, component, alertType, now, sendOk) ==
    LET dated == IF alertType = "PreAlert"
                 THEN [component EXCEPT !.datePreAlertSent = now]
                 ELSE [component EXCEPT !.dateAlertSent = now]
        message == IF ~sendOk THEN "none"
                   ELSE IF user.email THEN "email"
                   ELSE IF alertType = "Alert" THEN "notification"
                   ELSE "none"
    IN  [component |-> dated, message |-> message]

\* GearWear.notify: the component it leaves and the message it sent ("none"
\* when it sent nothing). sendOk is false when mailer.send,
\* createNotification or the gear lookup throws, which notify catches.
Notify(user, component, alertType, now, sendOk) ==
    LET recent == \/ SetAndAfter(component.datePreAlertSent, MinReminderDate(now))
                  \/ SetAndAfter(component.dateAlertSent, MinReminderDate(now))
        dated == IF alertType = "PreAlert"
                 THEN [component EXCEPT !.datePreAlertSent = now]
                 ELSE [component EXCEPT !.dateAlertSent = now]
        message == IF ~sendOk THEN "none"
                   ELSE IF user.email THEN "email"
                   ELSE IF alertType = "Alert" THEN "notification"
                   ELSE "none"
    IN  IF recent
        THEN [component |-> component, message |-> "none"]
        ELSE [component |-> dated, message |-> message]

\* The record of one notify call: what it was asked, what it found and what
\* it left.
CallOf(alertType, now, found, result) ==
    [alertType |-> alertType, at |-> now, message |-> result.message,
     preBefore |-> found.datePreAlertSent, alertBefore |-> found.dateAlertSent,
     preAfter |-> result.component.datePreAlertSent,
     alertAfter |-> result.component.dateAlertSent]

\* The alert the distance block of lines 663-677 asks for, "none" if none.
DistanceAlert(component, isReminder) ==
    IF component.alertDistance <= 0 THEN "none"
    ELSE IF /\ component.datePreAlertSent = NoDate
            /\ component.preAlertPercent # 0
            /\ component.currentDistance * 100 >=
                    component.preAlertPercent * component.alertDistance
         THEN "PreAlert"
    ELSE IF component.currentDistance < component.alertDistance THEN "none"
    ELSE IF component.dateAlertSent = NoDate THEN "Alert"
    ELSE IF /\ component.currentDistance >=
                    component.alertDistance * ReminderThreshold
            /\ isReminder
         THEN "Reminder"
    ELSE "none"

\* The alert the time block of lines 680-694 asks for: usagePercent is
\* currentTime / alertTime, so usagePercent >= preAlertPercent is
\* currentTime >= preAlertPercent * alertTime.
TimeAlert(component, isReminder) ==
    IF component.alertTime <= 0 THEN "none"
    ELSE IF /\ component.datePreAlertSent = NoDate
            /\ component.preAlertPercent # 0
            /\ component.currentTime >=
                    component.preAlertPercent * component.alertTime
         THEN "PreAlert"
    ELSE IF component.currentTime < component.alertTime THEN "none"
    ELSE IF component.dateAlertSent = NoDate THEN "Alert"
    ELSE IF /\ component.currentTime >= component.alertTime * ReminderThreshold
            /\ isReminder
         THEN "Reminder"
    ELSE "none"

\* The step a block takes: notify is called when the block asks for an alert.
\* `step` holds the component and the calls made so far.
AlertStep(user, step, alertType, now, sendOk) ==
    IF alertType = "none" THEN step
    ELSE LET result == Notify(user, step.component, alertType, now, sendOk)
         IN  [component |-> result.component,
              calls |-> Append(step.calls,
                               CallOf(alertType, now, step.component, result))]

\* The largest date of the component's history, 0 without history.
MostRecentTimestamp(component) ==
    IF component.history = <<>> THEN 0
    ELSE CHOOSE d \in {component.history[i].date : i \in DOMAIN component.history} :
            \A i \in DOMAIN component.history : component.history[i].date <= d

\* The component with the activity's distance and time added (lines 647-661).
Increased(component, activity) ==
    [component EXCEPT
        !.activityCount = @ + 1,
        !.currentDistance =
            RoundTenth(@ + IF activity.distance > 0 THEN activity.distance ELSE 0),
        !.currentTime =
            RoundTenth(@ + IF activity.movingTime > 0 THEN activity.movingTime ELSE 0)]

\* Lines 628-695 for the component and one activity: the component, the
\* notify calls, and whether the activity's totals were added.
TrackComponent(user, component, activity, now, sendOk) ==
    LET isReminder == /\ component.dateAlertSent # NoDate
                      /\ component.dateAlertSent < MinReminderDate(now)
        increased == Increased(component, activity)
        start == [component |-> increased, calls |-> <<>>]
        afterDistance ==
            AlertStep(user, start, DistanceAlert(increased, isReminder), now, sendOk)
        afterTime ==
            AlertStep(user, afterDistance,
                      TimeAlert(afterDistance.component, isReminder), now, sendOk)
    IN  IF component.disabled \/ MostRecentTimestamp(component) >= activity.dateStart
        THEN [component |-> component, calls |-> <<>>, added |-> FALSE]
        ELSE [component |-> afterTime.component, calls |-> afterTime.calls,
              added |-> TRUE]

\* Whether the loop of lines 601-698 skips the activity.
SkipsActivity(activity, lastUpdate) ==
    \/ activity.ignored
    \/ (activity.distance = 0 /\ activity.movingTime = 0)
    \/ (lastUpdate.set /\ \E i \in DOMAIN lastUpdate.activities :
                                lastUpdate.activities[i] = activity.id)

\* The locals of updateTracking before the loop.
TrackStart(component) ==
    [component |-> component, calls |-> <<>>, activityIds |-> <<>>,
     totalDistance |-> 0, totalTime |-> 0, addedIds |-> {}]

\* One turn of the loop of lines 601-698.
TrackActivity(user, track, activity, lastUpdate, now, sendOk) ==
    LET result == TrackComponent(user, track.component, activity, now, sendOk)
    IN  IF SkipsActivity(activity, lastUpdate) THEN track
        ELSE [component |-> result.component,
              calls |-> track.calls \o result.calls,
              activityIds |-> Append(track.activityIds, activity.id),
              totalDistance |-> track.totalDistance +
                    IF activity.distance > 0 THEN activity.distance ELSE 0,
              totalTime |-> track.totalTime +
                    IF activity.movingTime > 0 THEN activity.movingTime ELSE 0,
              addedIds |-> IF result.added
                           THEN track.addedIds \cup {activity.id}
                           ELSE track.addedIds]

\* The loop of lines 601-698 over the activities, in order.
RECURSIVE TrackAll(_, _, _, _, _, _)
TrackAll(user, track, list, lastUpdate, now, sendOk) ==
    IF list = <<>> THEN track
    ELSE TrackAll(user,
                  TrackActivity(user, track, Head(list), lastUpdate, now, sendOk),
                  Tail(list), lastUpdate, now, sendOk)

\* The messages of the calls that sent one.
SentOf(callList) ==
    SelectSeq(callList, LAMBDA c : c.message # "none")

\* The notifications among the calls.
NotificationsOf(callList) ==
    Len(SelectSeq(callList, LAMBDA c : c.message = "notification"))

\* GearWear.updateTracking with a list of activities that have started.
UpdateTracking ==
    /\ gearCalls < MaxGearCalls
    /\ \E list \in ActivityLists, sendOk \in BOOLEAN, setOk \in BOOLEAN :
        /\ \A i \in DOMAIN list : list[i].dateStart <= gearNow
        /\ LET track == TrackAll(gearUser, TrackStart(config.component),
                                 list, config.lastUpdate, gearNow, sendOk)
               updated ==
                   [config EXCEPT
                       !.component = track.component,
                       !.updating = FALSE,
                       !.lastUpdate =
                           [set |-> TRUE, date |-> gearNow,
                            activities |-> track.activityIds,
                            distance |-> track.totalDistance,
                            time |-> track.totalTime]]
           IN  IF list = <<>> \/ config.component.disabled
               THEN /\ calls' = <<>>
                    /\ UNCHANGED <<config, gearStore, messages, added, unread>>
               ELSE /\ config' = updated
                    /\ gearStore' = IF setOk THEN updated ELSE gearStore
                    /\ calls' = track.calls
                    /\ messages' = messages \o SentOf(track.calls)
                    /\ added' = [id \in ActivityIds |->
                                    added[id] + IF id \in track.addedIds THEN 1 ELSE 0]
                    /\ unread' = unread + NotificationsOf(track.calls)
    /\ before' = config.component
    /\ gearCalls' = gearCalls + 1
    /\ UNCHANGED <<gearUser, gearNow, resets, beyondGear>>

\* Whether the history holds a reset of the calendar day of now.
ResetToday(component, now) ==
    \E i \in DOMAIN component.history :
        DayOf(component.history[i].date) = DayOf(now)

\* Mutant: the reset is written to the history in privacy mode too.
ZeroedWithHistory(user, component, now) ==
    [component EXCEPT
        !.datePreAlertSent = NoDate, !.dateAlertSent = NoDate,
        !.currentDistance = 0, !.currentTime = 0, !.activityCount = 0,
        !.hasHistory = TRUE,
        !.history = Append(@, [date |-> now,
                               distance |-> component.currentDistance,
                               time |-> component.currentTime])]

\* The component after lines 756-766: zeroed, and with the reset in its
\* history unless the user has privacy mode.
Zeroed(user, component, now) ==
    [component EXCEPT
        !.datePreAlertSent = NoDate, !.dateAlertSent = NoDate,
        !.currentDistance = 0, !.currentTime = 0, !.activityCount = 0,
        !.hasHistory = TRUE,
        !.history = IF user.privacyMode THEN @
                    ELSE Append(@, [date |-> now,
                                    distance |-> component.currentDistance,
                                    time |-> component.currentTime])]

\* GearWear.resetTracking for a component name.
ResetTracking ==
    /\ gearCalls < MaxGearCalls
    /\ \E componentName \in {config.component.name, "cassette"}, setOk \in BOOLEAN :
        LET component == config.component
            zeroed == [config EXCEPT !.component = Zeroed(gearUser, component, gearNow)]
        IN  IF \/ componentName # component.name
               \/ (component.currentDistance < 1 /\ component.currentTime < 1)
               \/ (component.hasHistory /\ ResetToday(component, gearNow))
            THEN UNCHANGED <<config, gearStore, messages, resets, unread>>
            ELSE /\ config' = zeroed
                 /\ gearStore' = IF setOk THEN zeroed ELSE gearStore
                 /\ messages' = <<>>
                 /\ resets' = Append(resets, gearNow)
                 /\ unread' = IF setOk /\ ~gearUser.email THEN 0 ELSE unread
    /\ before' = config.component
    /\ calls' = <<>>
    /\ gearCalls' = gearCalls + 1
    /\ UNCHANGED <<gearUser, gearNow, added, beyondGear>>

\* Time passes.
GearTick ==
    /\ gearNow < MaxTick
    /\ gearNow' = gearNow + 1
    /\ UNCHANGED <<gearUser, config, gearStore, messages, calls, before, added,
                   resets, unread, gearCalls, beyondGear>>

GearNext == UpdateTracking \/ ResetTracking \/ GearTick

\* A configuration that was never updated, on the second day of the clock.
GearInit ==
    /\ gearUser \in GearUsers
    /\ config \in {ConfigOf(c) : c \in ComponentPool}
    /\ gearStore = config
    /\ gearNow = DayTicks
    /\ messages = <<>>
    /\ calls = <<>>
    /\ before = config.component
    /\ added = [id \in ActivityIds |-> 0]
    /\ resets = <<>>
    /\ unread = 0
    /\ gearCalls = 0

\* No gear is tracked.
GearUnused ==
    /\ gearUser = [email |-> FALSE, privacyMode |-> FALSE]
    /\ config = ConfigOf(Component(0, 0, 0, TRUE))
    /\ gearStore = config
    /\ gearNow = 0
    /\ messages = <<>>
    /\ calls = <<>>
    /\ before = config.component
    /\ added = [id \in ActivityIds |-> 0]
    /\ resets = <<>>
    /\ unread = 0
    /\ gearCalls = 0

\* -------------------------------------------------------------- GearWear.upsert

\* The calls made at most.
MaxUpserts == 2

\* No document under the gear id.
NoDoc == [exists |-> FALSE, disabled |-> FALSE, component |-> Component(0, 0, 0, FALSE)]

\* A stored configuration.
StoredDoc(disabled, component) ==
    [exists |-> TRUE, disabled |-> disabled, component |-> component]

\* The documents a call may find.
FoundDocs ==
    {NoDoc, StoredDoc(FALSE, Component(100, 0, 50, FALSE)),
     StoredDoc(TRUE, Component(100, 0, 50, FALSE))}

\* The configurations a call may be passed: valid ones, enabled or disabled,
\* and one with an alert distance below the minimum.
UpsertArgs ==
    [id : {"b1"}, disabled : BOOLEAN,
     component : {Component(200, 0, 50, FALSE), Component(0, 72000, 0, FALSE),
                  Component(50, 0, 50, FALSE)}]

\* The message of the Error validate throws for the component, "" if none
\* (lines 153-163).
ValidateError(component) ==
    IF component.alertDistance > 0 /\ component.alertDistance < 100
    THEN "Minimum accepted alert distance is 100"
    ELSE IF component.alertTime > 0 /\ component.alertTime < 72000
    THEN "Minimum accepted alert time is 20 hours (72000)"
    ELSE IF component.preAlertPercent > 0 /\ component.preAlertPercent < 50
    THEN "Pre alert reminder minimum threshold is 50%"
    ELSE ""

\* The configuration validate leaves: the history array is present
\* (lines 171-173).
Validated(gearwear) ==
    [gearwear EXCEPT !.component.hasHistory = TRUE]

\* database.merge of a configuration into the document of its id: the
\* fields passed replace the stored ones, and a missing document is created.
DatabaseMerge(doc, gearwear) ==
    [exists |-> TRUE, disabled |-> gearwear.disabled,
     component |-> gearwear.component]

\* GearWear.upsert: doc.get, the gear lookup, validate and database.merge,
\* and the catch block that merges and rethrows on a 404.
Upsert ==
    /\ upserts < MaxUpserts
    /\ \E gearwear \in UpsertArgs, hasGear \in BOOLEAN, getOk \in BOOLEAN,
          mergeOk \in BOOLEAN :
        LET marked == IF gearDoc.exists THEN [gearwear EXCEPT !.disabled = TRUE]
                      ELSE gearwear
            valid == Validated(gearwear)
        IN  /\ upsertHasGear' = hasGear
            /\ upsertFound' = gearDoc
            /\ IF ~getOk
               THEN /\ upsertArg' = gearwear
                    /\ upsertOutcome' = "raised"
                    /\ UNCHANGED gearDoc
               ELSE IF ~hasGear
               THEN /\ upsertArg' = marked
                    /\ upsertOutcome' = "raised"
                    /\ gearDoc' = IF mergeOk THEN DatabaseMerge(gearDoc, marked)
                                  ELSE gearDoc
               ELSE IF ValidateError(gearwear.component) # ""
               THEN /\ upsertArg' = gearwear
                    /\ upsertOutcome' = "raised"
                    /\ UNCHANGED gearDoc
               ELSE /\ upsertArg' = valid
                    /\ upsertOutcome' = IF mergeOk THEN "returned" ELSE "raised"
                    /\ gearDoc' = IF mergeOk THEN DatabaseMerge(gearDoc, valid)
                                  ELSE gearDoc
    /\ upserts' = upserts + 1
    /\ UNCHANGED beyondUpsert

UpsertNext == Upsert

\* A call of upsert is about to be made.
UpsertInit ==
    /\ gearDoc \in FoundDocs
    /\ upsertArg = [id |-> "b1", disabled |-> FALSE, component |-> Component(0, 0, 0, FALSE)]
    /\ upsertHasGear = TRUE
    /\ upsertFound = gearDoc
    /\ upsertOutcome = "idle"
    /\ upserts = 0

\* No call of upsert was made.
UpsertUnused ==
    /\ gearDoc = NoDoc
    /\ upsertArg = [id |-> "b1", disabled |-> FALSE, component |-> Component(0, 0, 0, FALSE)]
    /\ upsertHasGear = TRUE
    /\ upsertFound = gearDoc
    /\ upsertOutcome = "idle"
    /\ upserts = 0

\* ------------------------------------------------------ RecipeStats.updateStats

\* settings.recipes.maxActivityIds: the activity ids a stats document keeps.
MaxActivityIds == 2

\* The last tick of the clock: a call is made at each tick.
MaxStatsCalls == 4

\* The activities that trigger the recipe, with the property a recipe may
\* count.
StatsActivities ==
    {[id |-> 1, distance |-> 10], [id |-> 2, distance |-> 20],
     [id |-> 3, distance |-> 30]}

StatsIds == {a.id : a \in StatsActivities}

\* No stats document.
NoStats ==
    [exists |-> FALSE, activities |-> <<>>, activityCount |-> 0, counter |-> 0,
     hasDataCounter |-> FALSE, dataCounter |-> 0, dateLastTrigger |-> NoDate,
     recentFailures |-> 0, dateLastFailure |-> NoDate]

\* The stats object of lines 109-116, for the first activity.
NewStats(activity) ==
    [NoStats EXCEPT !.exists = TRUE, !.activities = <<activity.id>>,
                    !.activityCount = 1, !.counter = 1]

\* Array.includes.
IncludesId(ids, id) == \E i \in DOMAIN ids : ids[i] = id

\* Mutant: the activity is counted whether its id is listed or not.
CountedActivityAlways(stats, recipe, activity) ==
    [stats EXCEPT
        !.activities = Append(@, activity.id),
        !.activityCount = @ + 1,
        !.counter = @ + 1,
        !.hasDataCounter = @ \/ recipe.dataCounterProp # "",
        !.dataCounter = IF recipe.dataCounterProp # ""
                        THEN @ + activity[recipe.dataCounterProp] ELSE @]

\* Lines 123-132: the id is added and the counters raised when the id is
\* not listed.
CountedActivity(stats, recipe, activity) ==
    IF IncludesId(stats.activities, activity.id) THEN stats
    ELSE [stats EXCEPT
            !.activities = Append(@, activity.id),
            !.activityCount = @ + 1,
            !.counter = @ + 1,
            !.hasDataCounter = @ \/ recipe.dataCounterProp # "",
            !.dataCounter = IF recipe.dataCounterProp # ""
                            THEN @ + activity[recipe.dataCounterProp] ELSE @]

\* Lines 135-139: the oldest ids are dropped from a list longer than
\* maxActivityIds.
TrimmedIds(ids) ==
    IF Len(ids) > MaxActivityIds
    THEN SubSeq(ids, Len(ids) - MaxActivityIds + 1, Len(ids))
    ELSE ids

\* Lines 146-156: the trigger date and the failure fields.
Triggered(stats, success, now) ==
    IF success
    THEN [stats EXCEPT !.dateLastTrigger = now, !.recentFailures = 0]
    ELSE [stats EXCEPT !.dateLastTrigger = now, !.recentFailures = @ + 1,
                       !.dateLastFailure = now]

\* The stats object the call builds from the document it found.
UpdatedStats(found, recipe, activity, success, now) ==
    LET counted1 == CountedActivity(found, recipe, activity)
        trimmed == [counted1 EXCEPT !.activities = TrimmedIds(@)]
    IN  Triggered(IF found.exists THEN trimmed ELSE NewStats(activity),
                  success, now)

\* Whether the call raises the counter of the document it found.
RaisesCounter(found, activity) ==
    ~found.exists \/ ~IncludesId(found.activities, activity.id)

\* RecipeStats.updateStats: doc.get, the stats object, database.merge; a
\* throw of either store call is caught and logged.
UpdateStats ==
    /\ statsNow < MaxStatsCalls
    /\ \E activity \in StatsActivities, success \in BOOLEAN, getOk \in BOOLEAN,
          mergeOk \in BOOLEAN :
        LET stored == getOk /\ mergeOk
        IN  /\ statsActivity' = activity
            /\ statsStored' = stored
            /\ statsDoc' =
                IF stored
                THEN UpdatedStats(statsDoc, statsRecipe, activity, success, statsNow + 1)
                ELSE statsDoc
            /\ counted' =
                IF stored /\ RaisesCounter(statsDoc, activity)
                THEN [counted EXCEPT ![activity.id] = @ + 1] ELSE counted
            /\ dataSum' =
                IF stored /\ RaisesCounter(statsDoc, activity) /\ statsRecipe.dataCounterProp # ""
                THEN dataSum + activity[statsRecipe.dataCounterProp] ELSE dataSum
    /\ statsFound' = statsDoc
    /\ statsNow' = statsNow + 1
    /\ UNCHANGED <<statsRecipe, beyondStats>>

StatsNext == UpdateStats

\* A recipe that was never triggered.
StatsInit ==
    /\ statsRecipe \in [dataCounterProp : {"", "distance"}]
    /\ statsDoc = NoStats
    /\ statsFound = NoStats
    /\ statsActivity = [id |-> 1, distance |-> 10]
    /\ statsStored = FALSE
    /\ statsNow = 0
    /\ counted = [id \in StatsIds |-> 0]
    /\ dataSum = 0

\* No recipe is triggered.
StatsUnused ==
    /\ statsRecipe = [dataCounterProp |-> ""]
    /\ statsDoc = NoStats
    /\ statsFound = NoStats
    /\ statsActivity = [id |-> 1, distance |-> 10]
    /\ statsStored = FALSE
    /\ statsNow = 0
    /\ counted = [id \in StatsIds |-> 0]
    /\ dataSum = 0

\* -------------------------------------------------------- GDPR.generateArchive

\* settings.gdpr.requestDays.
RequestDays == 2

\* The last tick of the clock, and the archives built at most.
MaxGdprTick == 5
MaxBuilds == 2

\* dayjs("2000-01-01"), long before the clock starts.
Year2000 == 0 - 9000

\* No user: the argument is null or undefined.
NoUser == [exists |-> FALSE, suspended |-> FALSE, dateLastArchiveGenerated |-> NoDate]

\* A user.
UserWith(suspended, date) ==
    [exists |-> TRUE, suspended |-> suspended, dateLastArchiveGenerated |-> date]

\* Mutant: the difference in days, rounded up.
DiffDaysUp(now, date) == (now - date + DayTicks - 1) \div DayTicks

\* dayjs diff in days: the whole days between two dates, truncated.
DiffDays(now, date) ==
    IF now >= date THEN (now - date) \div DayTicks
    ELSE 0 - ((date - now) \div DayTicks)

\* lastDownload of line 509.
LastDownload(user) ==
    IF user.dateLastArchiveGenerated = NoDate THEN Year2000
    ELSE user.dateLastArchiveGenerated

\* Whether line 513 sends the call to the stored archive.
AsksCache(user, now) == DiffDays(now, LastDownload(user)) < RequestDays

\* The calls of lines 527-579 that build and store the archive, and the last
\* getUrl, in order.
BuildOps == <<"search", "listFiles", "setFile", "update", "getUrl">>

\* The calls of a sequence up to and with the one that throws, all of them
\* when none throws.
RECURSIVE UpTo(_, _)
UpTo(ops, threw) ==
    IF ops = <<>> THEN <<>>
    ELSE IF Head(ops) = threw THEN <<threw>>
    ELSE <<Head(ops)>> \o UpTo(Tail(ops), threw)

\* Whether a call of the sequence was made and returned.
Done(ops, threw, op) ==
    \E i \in DOMAIN UpTo(ops, threw) : UpTo(ops, threw)[i] = op /\ op # threw

\* GDPR.generateArchive for the stored user or for no user; `threw` is the
\* store or storage call that throws, "cache" being the getUrl of line 514.
GenerateArchive ==
    /\ Len(builds) < MaxBuilds
    /\ \E user \in {gdprUser, NoUser},
          threw \in {"none", "cache", "search", "listFiles", "setFile", "update", "getUrl"} :
        LET invalid == ~user.exists \/ user.suspended
            asks == ~invalid /\ AsksCache(user, gdprNow)
            cached == asks /\ threw # "cache" /\ archive
            cacheOps == IF asks THEN <<"cache">> ELSE <<>>
            built == UpTo(BuildOps, threw)
        IN  /\ gdprArg' = user
            /\ gdprFound' = archive
            /\ IF invalid
               THEN /\ gdprOps' = <<>>
                    /\ gdprResult' = "raised"
                    /\ UNCHANGED <<gdprUser, archive, builds>>
               ELSE IF asks /\ threw = "cache"
               THEN /\ gdprOps' = <<"cache">>
                    /\ gdprResult' = "raised"
                    /\ UNCHANGED <<gdprUser, archive, builds>>
               ELSE IF cached
               THEN /\ gdprOps' = <<"cache">>
                    /\ gdprResult' = "cached"
                    /\ UNCHANGED <<gdprUser, archive, builds>>
               ELSE /\ gdprOps' = cacheOps \o built
                    /\ gdprResult' = IF threw \in {"none", "cache"} THEN "built"
                                     ELSE "raised"
                    /\ archive' = (archive \/ Done(BuildOps, threw, "setFile"))
                    /\ gdprUser' =
                        IF Done(BuildOps, threw, "update") /\ gdprUser.exists
                        THEN [gdprUser EXCEPT !.dateLastArchiveGenerated = gdprNow]
                        ELSE gdprUser
                    /\ builds' =
                        IF Done(BuildOps, threw, "setFile")
                        THEN Append(builds, [at |-> gdprNow,
                                             last |-> user.dateLastArchiveGenerated,
                                             found |-> archive])
                        ELSE builds
            /\ gdprThrew' = IF gdprResult' = "raised" /\ ~invalid THEN threw ELSE "none"
    /\ UNCHANGED <<gdprNow, beyondGdpr>>

\* GDPR.clearArchives deletes the user's archive.
ClearArchives ==
    /\ archive
    /\ archive' = FALSE
    /\ UNCHANGED <<gdprUser, gdprNow, gdprArg, gdprFound, gdprOps, gdprThrew,
                   gdprResult, builds, beyondGdpr>>

\* Time passes.
GdprTick ==
    /\ gdprNow < MaxGdprTick
    /\ gdprNow' = gdprNow + 1
    /\ UNCHANGED <<gdprUser, archive, gdprArg, gdprFound, gdprOps, gdprThrew,
                   gdprResult, builds, beyondGdpr>>

GdprNext == GenerateArchive \/ ClearArchives \/ GdprTick

\* A user who never asked for an archive, suspended or not, and an empty
\* bucket.
GdprInit ==
    /\ gdprUser \in {UserWith(FALSE, NoDate), UserWith(TRUE, NoDate)}
    /\ archive = FALSE
    /\ gdprNow = 0
    /\ gdprArg = NoUser
    /\ gdprFound = FALSE
    /\ gdprOps = <<>>
    /\ gdprThrew = "none"
    /\ gdprResult = "idle"
    /\ builds = <<>>

\* No archive is asked for.
GdprUnused ==
    /\ gdprUser = NoUser
    /\ archive = FALSE
    /\ gdprNow = 0
    /\ gdprArg = NoUser
    /\ gdprFound = FALSE
    /\ gdprOps = <<>>
    /\ gdprThrew = "none"
    /\ gdprResult = "idle"
    /\ builds = <<>>

\* None of the components outside the FIT decoder is in use.
RestUnused ==
    ProcUnused /\ GearUnused /\ UpsertUnused /\ StatsUnused /\ GdprUnused

\* ------------------------------------------------------------ specifications

\* No match is running.
MatchUnused ==
    /\ store = [garmin |-> <<>>, wahoo |-> <<>>]
    /\ target = [id |-> "s1", dateStart |-> TargetStart, totalTime |-> 3600,
                 device |-> <<>>]
    /\ source = ""
    /\ MatchIdle

\* Nothing but a parse is running.
OnlyParse == MatchUnused /\ PairUnused /\ SaveUnused /\ RestUnused

\* A parse of one buffer.
Init == ParseInit /\ OnlyParse

Next == ParseNext

Spec == Init /\ [][Next]_vars

\* A parse of a well-formed buffer whose sessions carry the derived fields.
MetricInit ==
    /\ ParseInitOn(PlainBlobs(MetricPool), Summaries \cup {MetricSummary})
    /\ OnlyParse

MetricSpec == MetricInit /\ [][Next]_vars

\* A parse of a well-formed buffer of device-info records.
DeviceInit ==
    /\ ParseInitOn(PlainBlobs(DevicePool), Summaries)
    /\ OnlyParse

DeviceSpec == DeviceInit /\ [][Next]_vars

\* A parse of a well-formed buffer with records that readRecord has nothing
\* to file for, or throws on.
SkipInit ==
    /\ ParseInitOn(PlainBlobs(SkipPool), Summaries)
    /\ OnlyParse

SkipSpec == SkipInit /\ [][Next]_vars

\* A call of getMatchingActivity; no parse is running.
MatchSpecInit ==
    ParseIdle /\ MatchInit /\ PairUnused /\ SaveUnused /\ RestUnused

MatchSpec == MatchSpecInit /\ [][MatchNext]_vars

\* A parse of a well-formed buffer of Definition records and of Data records
\* that name a slot.
SlotInit == ParseInitOn(PlainBlobs(SlotPool), {NewSummary}) /\ OnlyParse

SlotSpec == SlotInit /\ [][Next]_vars

\* A parse of a buffer that passes the format checks, whatever its bytes 4-7.
LengthInit == ParseInitOn(LengthBlobs, Summaries) /\ OnlyParse

LengthSpec == LengthInit /\ [][Next]_vars

\* The step that ends the loop, by what it does to pc: ParseFinalize is the
\* one step of Next that takes pc from "loop" to "done", and it can be taken
\* whenever the cursor has reached the trailer offset.
LoopEnds ==
    /\ pc = "loop"
    /\ ~(loopIndex < CrcStart(blob))
    /\ pc' = "done"

\* Records that are filed, that leave nothing, and that readRecord throws on.
FairPool == {SessionFull, UnknownMsg, NoMessage, Malformed}

FairInit == ParseInitOn(PlainBlobs(FairPool), Summaries) /\ OnlyParse

\* A parse run to its end: parse is synchronous, a call that has started
\* takes its next step until it returns or throws.
FairSpec ==
    /\ FairInit
    /\ [][Next]_vars
    /\ WF_vars(ParseHeader)
    /\ WF_vars(ParseCrc)
    /\ WF_vars(ParseRecord)
    /\ WF_pc(LoopEnds)

\* A second parse of a buffer, into the summary a first parse of the same
\* buffer into a new summary has produced.
AgainInit ==
    /\ blob \in PlainBlobs(MetricPool)
    /\ ParseOutcome(blob, NewSummary).thrown = ""
    /\ supplied = ParseOutcome(blob, NewSummary).summary
    /\ fitFileActivity = supplied
    /\ pc = "header"
    /\ ParseLocals
    /\ OnlyParse

AgainSpec == AgainInit /\ [][Next]_vars

\* A parse of a well-formed buffer of session and sport records.
SportInit ==
    ParseInitOn(PlainBlobs(SportPool), {NewSummary, NamedSummary}) /\ OnlyParse

SportSpec == SportInit /\ [][Next]_vars

\* A parse of a well-formed buffer of session records, workout records and
\* records of a kind without a bucket.
WorkoutInit ==
    ParseInitOn(PlainBlobs(WorkoutPool), {NewSummary, NamedSummary}) /\ OnlyParse

WorkoutSpec == WorkoutInit /\ [][Next]_vars

\* Two calls of parse in flight together; their turns interleave in every
\* order.
PairSpecInit ==
    ParseIdle /\ MatchUnused /\ PairInit /\ SaveUnused /\ RestUnused

PairSpec == PairSpecInit /\ [][PairNext]_vars

\* The matcher's clock at some time, nothing else of it in use.
ClockOnly ==
    /\ store = [garmin |-> <<>>, wahoo |-> <<>>]
    /\ target = [id |-> "s1", dateStart |-> TargetStart, totalTime |-> 3600,
                 device |-> <<>>]
    /\ source = ""
    /\ mpc = "start"
    /\ where = <<>>
    /\ activities = <<>>
    /\ queries = <<>>
    /\ clock \in 0..MaxClock
    /\ wakeAt = 0
    /\ returned = [kind |-> "none"]
    /\ logged = ""

\* A call of saveProcessedActivity at some time.
SaveSpecInit ==
    ParseIdle /\ ClockOnly /\ PairUnused /\ SaveInit /\ RestUnused

SaveSpec == SaveSpecInit /\ [][SaveNext]_vars

\* The decoder, the matcher and the save are not in use.
FitUnused == ParseIdle /\ MatchUnused /\ PairUnused /\ SaveUnused

\* Two executions of processRecentActivities a day, on one stored state.
ProcSpecInit ==
    /\ FitUnused /\ ProcInit
    /\ GearUnused /\ UpsertUnused /\ StatsUnused /\ GdprUnused

ProcSpec == ProcSpecInit /\ [][ProcNext]_vars

\* The same, where an execution that can take a step takes one: an awaited
\* store call settles one way or the other.
ProcFairSpec ==
    /\ ProcSpecInit
    /\ [][ProcNext]_vars
    /\ \A e \in Executions : WF_vars(ProcStep(e))

\* Calls of updateTracking and resetTracking on one configuration, as time
\* passes.
GearSpecInit ==
    /\ FitUnused /\ ProcUnused /\ GearInit
    /\ UpsertUnused /\ StatsUnused /\ GdprUnused

GearSpec == GearSpecInit /\ [][GearNext]_vars

\* The same on the components that alert by distance, alone or with time,
\* for users without privacy mode.
AlertInit ==
    /\ GearSpecInit
    /\ ~gearUser.privacyMode
    /\ config.component \in {Component(100, 0, 50, FALSE), Component(100, 72000, 50, FALSE)}

AlertSpec == AlertInit /\ [][GearNext]_vars

\* Calls of upsert on one gear id.
UpsertSpecInit ==
    /\ FitUnused /\ ProcUnused /\ GearUnused
    /\ UpsertInit /\ StatsUnused /\ GdprUnused

UpsertSpec == UpsertSpecInit /\ [][UpsertNext]_vars

\* Calls of updateStats on one recipe.
StatsSpecInit ==
    /\ FitUnused /\ ProcUnused /\ GearUnused
    /\ UpsertUnused /\ StatsInit /\ GdprUnused

StatsSpec == StatsSpecInit /\ [][StatsNext]_vars

\* Calls of generateArchive for one user, as time passes and archives are
\* cleared.
GdprSpecInit ==
    /\ FitUnused /\ ProcUnused /\ GearUnused
    /\ UpsertUnused /\ StatsUnused /\ GdprInit

GdprSpec == GdprSpecInit /\ [][GdprNext]_vars

\* -------------------------------------------------------------------- claims

FormatErrors ==
    {"File to small to be a FIT file", "Incorrect header size",
     "Missing '.FIT' in header"}

\* C1: a buffer shorter than 12 bytes, or whose byte 0 is neither 12 nor 14,
\* or whose bytes 8-11 are not ".FIT", makes parse fail with a format error
\* before any record is read, with no warning logged, no bucket filled and
\* the destination summary as the caller supplied it.
C1_FormatErrorBeforeDecoding ==
    (/\ pc # "header"
     /\ \/ blob.length < 12
        \/ blob.b0 \notin {12, 14}
        \/ blob.fileType # ".FIT")
    => /\ pc = "failed"
       /\ thrown \in FormatErrors
       /\ recordsRead = 0
       /\ warnings = <<>>
       /\ fitObj = EmptyFitObj
       /\ fitFileActivity = supplied

\* A parse has failed on a full-length buffer with a 14-byte header and a
\* wrong file type, into a summary that already had content.
C1_Witness ==
    /\ pc = "failed"
    /\ blob.length >= 12 /\ blob.b0 = 14 /\ blob.fileType # ".FIT"
    /\ blob.records # <<>>
    /\ supplied = UsedSummary

\* The buffer with both stored checksums set to the computed ones.
WithMatchingCrc(b) ==
    [b EXCEPT !.crcHeader = CalculateCRC(b, 0, 12),
              !.crcFile = CalculateCRC(b, IF b.b0 = 12 THEN 0 ELSE b.b0, CrcStart(b))]

\* C6: for a buffer that passes the format checks, parse ends without an
\* Error whatever the stored checksums are, and the summary is the one parse
\* produces for the same buffer with matching checksums.
C6_CrcMismatchIsHarmless ==
    (/\ pc \in {"done", "failed"}
     /\ blob.length >= 12 /\ blob.b0 \in {12, 14} /\ blob.fileType = ".FIT")
    => /\ pc = "done"
       /\ thrown = ""
       /\ ParseOutcome(WithMatchingCrc(blob), supplied).thrown = ""
       /\ fitFileActivity = ParseOutcome(WithMatchingCrc(blob), supplied).summary

\* A parse has ended after both checksum warnings, with a session decoded.
C6_Witness ==
    /\ pc = "done"
    /\ warnings = <<"Header CRC mismatch", "File CRC mismatch">>
    /\ blob # WithMatchingCrc(blob)
    /\ Len(fitObj.sessions) > 0

RECURSIVE SumOfField(_, _)
\* The sum of a field over the messages, a message without it adding nothing.
SumOfField(list, field) ==
    IF list = <<>> THEN 0
    ELSE (IF Has(Head(list), field) THEN Head(list)[field] ELSE 0)
         + SumOfField(Tail(list), field)

\* The session messages of a stream.
SessionsOf(records) ==
    LET only == SelectSeq(records, LAMBDA r : r.messageType = "session")
    IN  [i \in 1..Len(only) |-> only[i].message]

SomeHas(list, field) == \E i \in 1..Len(list) : Has(list[i], field)

Totals(activity) ==
    [k \in DOMAIN activity \cap {"distance", "totalTime"} |-> activity[k]]

\* The buffer with every record that is not a session taken out.
OnlySessions(b) ==
    LET kept == SelectSeq(b.records, LAMBDA r : r.messageType = "session")
    IN  MakeBlob(b.b0 + SizeSum(kept, Len(kept)) + 2, b.b0, b.fileType, kept, 0, 0)

\* C8: distance and totalTime are those parse gives for the buffer with its
\* lap, length, event and other non-session records removed, whatever
\* paused time the timer events added.
C8_TotalsFromSessionsOnly ==
    pc = "done"
    => Totals(fitFileActivity) = Totals(ParseOutcome(OnlySessions(blob), supplied).summary)

\* A parse has ended on a stream with a session, a lap or a length, and
\* a timer stop and start that added paused time.
C8_Witness ==
    /\ pc = "done"
    /\ Len(fitObj.sessions) > 0
    /\ Len(fitObj.events) > 0
    /\ pausedTime > 0
    /\ OnlySessions(blob).records # blob.records

RECURSIVE StoppedTime(_, _, _)
\* The time the timer was stopped, in milliseconds: a stop_all opens an
\* interval, the next start closes it, a start with no open interval adds
\* nothing.  `open` is <<>> or <<the stop's timestamp>>.
StoppedTime(events, open, total) ==
    IF events = <<>> THEN total
    ELSE LET e == Head(events)
         IN  IF e.event = "timer" /\ e.event_type = "stop_all"
             THEN StoppedTime(Tail(events), <<e.timestamp>>, total)
             ELSE IF e.event = "timer" /\ e.event_type = "start" /\ open # <<>>
             THEN StoppedTime(Tail(events), <<>>, total + (e.timestamp - open[1]))
             ELSE StoppedTime(Tail(events), open, total)

\* C9: after the events decoded so far the accumulator is the time the
\* timer was stopped, in seconds, each stop-to-start interval counted once.
C9_PausedTimeIsStoppedTime ==
    pc \in {"loop", "done"}
    => pausedTime * 1000 = StoppedTime(fitObj.events, <<>>, 0)

\* C10 as stated: when parse has completed, the summary carries the final
\* value of the accumulator.
C10_PausedTimeOnSummary ==
    pc = "done"
    => Has(fitFileActivity, "pausedTime") /\ fitFileActivity.pausedTime = pausedTime

\* The keys parse writes to the summary.
ParseKeys ==
    {"distance", "totalTime", "primaryBenefit", "intensityFactor", "tss",
     "trainingLoad", "aerobicTrainingEffect", "anaerobicTrainingEffect",
     "pedalSmoothness", "pedalTorqueEffect", "pedalBalance", "sportProfile",
     "workoutName", "workoutNotes", "devices", "deviceBattery"}

\* C10, amended: when parse has completed, the accumulator is on no key of
\* the summary: the summary has the keys the caller supplied and those of
\* the fields finalization sets, and none of them is the paused time.
C10_PausedTimeNotOnSummary ==
    pc = "done"
    => /\ DOMAIN fitFileActivity \subseteq DOMAIN supplied \cup ParseKeys
       /\ ~Has(fitFileActivity, "pausedTime")

\* A parse has ended with 60 seconds of paused time accumulated.
C10_Witness ==
    /\ pc = "done"
    /\ pausedTime = 60
    /\ "pausedTime" \notin DOMAIN supplied

\* A candidate whose total time is within 60 seconds of the target's.
InTolerance(doc) ==
    doc.totalTime >= target.totalTime - 60 /\ doc.totalTime <= target.totalTime + 60

\* C2: an activity that getMatchingActivity returns is the first candidate,
\* in candidate order, whose totalTime is within 60 seconds of the target's;
\* no candidate outside the tolerance is returned.
C2_ReturnsFirstWithinTolerance ==
    (mpc = "returned" /\ returned.kind = "activity")
    => \E i \in 1..Len(activities) :
           /\ returned.activity = activities[i]
           /\ InTolerance(activities[i])
           /\ \A j \in 1..(i - 1) : ~InTolerance(activities[j])

\* The call has returned the second of two candidates, the first being
\* outside the tolerance.
C2_Witness ==
    /\ mpc = "returned"
    /\ returned.kind = "activity"
    /\ Len(activities) = 2
    /\ ~InTolerance(activities[1])
    /\ returned.activity = activities[2]

\* C3: with candidates returned and none of them within the tolerance, the
\* call ends in its warning branch and returns null, as it does with no
\* candidate; it does not end in its error handler.
C3_NoMatchWarnsAndReturnsNull ==
    (/\ mpc = "returned"
     /\ activities # <<>>
     /\ \A i \in 1..Len(activities) : ~InTolerance(activities[i]))
    => returned = [kind |-> "null"] /\ logged = "warn"

\* C4: a call makes at most two searches.  With a single vendor as source
\* every search is of that vendor's collection, and a second one happens
\* only after the first returned nothing and the target's device names the
\* vendor, with the same query, RetryInterval * 2 or more after the first.
\* With source "any" no collection is searched twice.
C4_AtMostOneDelayedRetry ==
    /\ Len(queries) <= 2
    /\ source \in {"garmin", "wahoo"}
       => /\ \A i \in 1..Len(queries) : queries[i].collection = source
          /\ Len(queries) = 2
             => /\ queries[1].result = <<>>
                /\ Includes(ToLowerCase(target.device), SourceChars(source))
                /\ queries[2].where = queries[1].where
                /\ queries[2].at >= queries[1].at + RetryInterval * 2
    /\ source \in {"", "any"}
       => \A i, j \in 1..Len(queries) :
              i # j => queries[i].collection # queries[j].collection

\* A call for one vendor has returned after a retry that found a summary
\* saved during the sleep.
C4_Witness ==
    /\ mpc = "returned"
    /\ source = "garmin"
    /\ Len(queries) = 2
    /\ queries[2].result # <<>>

\* A summary of the target's user that starts within a minute of the target.
InWindow(doc) ==
    /\ doc.userId = UserId
    /\ doc.dateStart >= target.dateStart - 60
    /\ doc.dateStart <= target.dateStart + 60

\* C5: every search returns the documents of its collection that are of the
\* target's user and start within a minute of the target, and nothing else;
\* with source "any" the candidates are those of garmin followed by those
\* of wahoo, with a single vendor only that collection is searched; the
\* returned summary is of the user and in the window.
C5_CandidatesOfUserInWindow ==
    /\ \A i \in 1..Len(queries) :
           /\ queries[i].result = SelectSeq(queries[i].docs, InWindow)
           /\ queries[i].collection
                  \in (IF source \in {"garmin", "wahoo"} THEN {source}
                       ELSE {"garmin", "wahoo"})
    /\ \A i \in 1..Len(activities) : InWindow(activities[i])
    /\ (mpc \in {"evaluate", "returned"} /\ source = "any")
       => /\ Len(queries) = 2
          /\ queries[1].collection = "garmin"
          /\ queries[2].collection = "wahoo"
          /\ activities = queries[1].result \o queries[2].result
    /\ (mpc \in {"evaluate", "returned"} /\ source \in {"garmin", "wahoo"})
       => activities = queries[Len(queries)].result
    /\ returned.kind = "activity" => InWindow(returned.activity)

\* A call with source "any" has returned a wahoo summary while the garmin
\* collection held only documents outside the window or of another user.
C5_Witness ==
    /\ mpc = "returned"
    /\ source = "any"
    /\ returned.kind = "activity"
    /\ queries[1].docs # <<>>
    /\ queries[1].result = <<>>
    /\ queries[2].result # <<>>

\* ------------------------------------------- claims on the derived fields

\* A field of the summary: <<value>>, or <<>> when the summary has no such key.
FieldOf(activity, field) ==
    IF Has(activity, field) THEN <<activity[field]>> ELSE <<>>

\* The places of the sessions that give a non-null value for the field.
SessionsWith(sessions, field) ==
    {i \in 1..Len(sessions) : SessionValue(sessions[i], field) # <<>>}

\* The first of them.
FirstWith(sessions, field) ==
    CHOOSE i \in SessionsWith(sessions, field) :
        \A j \in SessionsWith(sessions, field) : i <= j

\* The summary parse gives when the only session is the one at place i.
WithSessionAlone(i) ==
    FinalizeSummary(supplied, [fitObj EXCEPT !.sessions = <<fitObj.sessions[i]>>])

\* C11: after a parse into an empty summary each derived field is the one
\* that the first session with a non-null value for it gives on its own,
\* a value of 0 included, whatever the later sessions carry.
C11_FirstNonNullWins ==
    (pc = "done" /\ supplied = NewSummary)
    => \A f \in DOMAIN SessionFieldKeys :
           SessionsWith(fitObj.sessions, f) # {}
           => FieldOf(fitFileActivity, f)
                  = FieldOf(WithSessionAlone(FirstWith(fitObj.sessions, f)), f)

\* The pedal balance the merge leaves on the summary: the one the caller
\* supplied, else the left_right_balance of the first session that has one.
SelectedBalance ==
    IF Truthy(supplied, "pedalBalance") THEN <<supplied.pedalBalance>>
    ELSE IF SessionsWith(fitObj.sessions, "pedalBalance") # {}
    THEN <<fitObj.sessions[FirstWith(fitObj.sessions, "pedalBalance")]
               .left_right_balance>>
    ELSE <<>>

\* A raw balance that is right-power based and at most 10000.
RightBased(v) ==
    Has(v, "right") /\ v.right /\ Has(v, "value") /\ v.value <= 10000

\* "L {left}% / R {right}%" for a raw value.
BalanceString(raw) ==
    "L " \o ToString(100 - (raw + 50) \div 100) \o "% / R "
         \o ToString((raw + 50) \div 100) \o "%"

\* C12: after parse pedalBalance is "L {left}% / R {right}%", with right the
\* raw value over 100 rounded and left 100 - right, when the selected value
\* is a right-based raw value of at most 10000 (6000 gives "L 40% / R 60%");
\* in every other case the summary has no pedalBalance key.
C12_PedalBalanceStringOrAbsent ==
    pc = "done"
    => /\ IF SelectedBalance # <<>> /\ RightBased(SelectedBalance[1])
          THEN FieldOf(fitFileActivity, "pedalBalance")
                   = <<[str |-> BalanceString(SelectedBalance[1].value)]>>
          ELSE ~Has(fitFileActivity, "pedalBalance")
       /\ SelectedBalance = <<[value |-> 6000, right |-> TRUE]>>
          => fitFileActivity.pedalBalance = [str |-> "L 40% / R 60%"]
       /\ SelectedBalance = <<[value |-> 10500, right |-> TRUE]>>
          => ~Has(fitFileActivity, "pedalBalance")

\* A parse has ended with the balance of the first of two sessions decoded:
\* 4050 is 40.5 %, rounded to 41.
C12_Witness ==
    /\ pc = "done"
    /\ fitObj.sessions = <<SessionSprint.message, SessionRich.message>>
    /\ FieldOf(fitFileActivity, "pedalBalance") = <<[str |-> "L 59% / R 41%"]>>

\* The primary benefit the merge loop leaves on the summary.
SelectedBenefit ==
    FieldOf(MergeSessions(supplied, fitObj.sessions), "primaryBenefit")

\* The names of the benefit codes.
BenefitNames ==
    (0 :> "None") @@ (1 :> "Recovery") @@ (2 :> "Base") @@ (3 :> "Tempo")
    @@ (4 :> "Threshold") @@ (5 :> "VO2Max") @@ (6 :> "Anaerobic")
    @@ (7 :> "Sprint")

\* C13: after a parse into an empty summary, a benefit code in 0..7 selected
\* from the sessions is on the summary as its name: 0 "None", 1 "Recovery",
\* 2 "Base", 3 "Tempo", 4 "Threshold", 5 "VO2Max", 6 "Anaerobic", 7 "Sprint".
C13_BenefitCodesDecoded ==
    (pc = "done" /\ supplied = NewSummary)
    => \A c \in DOMAIN BenefitNames :
           SelectedBenefit = <<[num |-> c]>>
           => FieldOf(fitFileActivity, "primaryBenefit")
                  = <<[str |-> BenefitNames[c]]>>

\* C14: a benefit code outside 0..7 selected from the sessions does not make
\* parse fail, and the summary holds the code as it was.
C14_UnknownBenefitCodeKept ==
    (pc \in {"done", "failed"} /\ supplied = NewSummary
     /\ SelectedBenefit # <<>> /\ Has(SelectedBenefit[1], "num")
     /\ SelectedBenefit[1].num \notin DOMAIN BenefitNames)
    => /\ pc = "done"
       /\ FieldOf(fitFileActivity, "primaryBenefit") = SelectedBenefit

\* ------------------------------------------------ claims on the device list

\* The device-info messages with a manufacturer and a serial number.
ValidInfos == SelectSeq(fitObj.devices, ValidDevice)

\* C15 as stated: the device-info records that share a manufacturer and a
\* serial number give one entry of the device list, whatever else they
\* differ in.
C15_SameSerialOneEntry ==
    (pc = "done" /\ Len(fitObj.devices) > 0)
    => Len(fitFileActivity.devices)
           = Cardinality({<<ValidInfos[i].manufacturer, ValidInfos[i].serial_number>> :
                             i \in 1..Len(ValidInfos)})

\* A name without underscores and whitespace.
StripChars(chars) == SelectSeq(chars, LAMBDA c : c # "_" /\ c # " ")

\* What the identity of a device is made of: the manufacturer, the first
\* of product name, device type, source type and device index that is set,
\* and the serial number.
DeviceKey(d) ==
    <<StripChars(d.manufacturer), StripChars(DeviceMiddle(d)), d.serial_number>>

\* C15, amended: the device-info records that share manufacturer, serial
\* number and middle part (product name, else device type, else source
\* type, else device index) give one entry of the device list, whatever
\* their timestamp and battery status; records that differ in the middle
\* part give an entry each.
C15_SameIdentityOneEntry ==
    (pc = "done" /\ Len(fitObj.devices) > 0)
    => Len(fitFileActivity.devices)
           = Cardinality({DeviceKey(ValidInfos[i]) : i \in 1..Len(ValidInfos)})

\* A parse has ended on two records of one device that differ in timestamp
\* and battery status, with one entry for both.
C15_Witness ==
    /\ pc = "done"
    /\ Len(ValidInfos) = 2
    /\ DeviceKey(ValidInfos[1]) = DeviceKey(ValidInfos[2])
    /\ ValidInfos[1].timestamp # ValidInfos[2].timestamp
    /\ Has(ValidInfos[1], "battery_status") # Has(ValidInfos[2], "battery_status")
    /\ Len(fitFileActivity.devices) = 1

\* The device-info messages that carry a manufacturer and a serial number.
InfosWithBoth ==
    SelectSeq(fitObj.devices,
              LAMBDA d : Has(d, "manufacturer") /\ Has(d, "serial_number"))

\* "{manufacturer}.{middle}.{serial number}" of such a message.
IdentityOf(d) ==
    StripChars(d.manufacturer) \o <<".">> \o StripChars(DeviceMiddle(d))
        \o <<".">> \o NumberChars(d.serial_number)

\* C16: after parse every entry of the device list is the identity string
\* of a device-info message that has a manufacturer and a serial number,
\* and no two entries are equal.
C16_DeviceListValidAndUnique ==
    (pc = "done" /\ Len(fitObj.devices) > 0)
    => /\ \A k \in 1..Len(fitFileActivity.devices) :
              \E i \in 1..Len(InfosWithBoth) :
                  fitFileActivity.devices[k] = IdentityOf(InfosWithBoth[i])
       /\ \A k, l \in 1..Len(fitFileActivity.devices) :
              fitFileActivity.devices[k] = fitFileActivity.devices[l] => k = l

\* A parse has ended on a record without a serial number and two records of
\* different devices: two entries.
C16_Witness ==
    /\ pc = "done"
    /\ Len(fitObj.devices) = 3
    /\ Len(InfosWithBoth) = 2
    /\ Len(fitFileActivity.devices) = 2

\* The ids of the battery entries, in order; <<>> when the summary has no
\* deviceBattery.
BatteryIds ==
    IF Has(fitFileActivity, "deviceBattery")
    THEN [k \in 1..Len(fitFileActivity.deviceBattery) |->
             fitFileActivity.deviceBattery[k].id]
    ELSE <<>>

\* The entries of the device list.
ListedIds ==
    {fitFileActivity.devices[k] : k \in 1..Len(fitFileActivity.devices)}

\* The listed identities for which some device-info record reports a
\* battery status.
ReportingIds ==
    {id \in ListedIds :
        \E i \in 1..Len(InfosWithBoth) :
            /\ IdentityOf(InfosWithBoth[i]) = id
            /\ HasBattery(InfosWithBoth[i])}

\* C17 as stated: deviceBattery has exactly one entry for each listed
\* identity for which some device-info record reports a battery status,
\* every id of it is listed, and it is not set when there is none.
C17_BatteryOfEveryReportingDevice ==
    (pc = "done" /\ Len(fitObj.devices) > 0)
    => /\ Has(fitFileActivity, "deviceBattery") <=> ReportingIds # {}
       /\ {BatteryIds[k] : k \in 1..Len(BatteryIds)} = ReportingIds
       /\ Len(BatteryIds) = Cardinality(ReportingIds)

\* The first device-info record of an identity.
FirstInfoOf(id) ==
    InfosWithBoth[CHOOSE i \in 1..Len(InfosWithBoth) :
                      /\ IdentityOf(InfosWithBoth[i]) = id
                      /\ \A j \in 1..(i - 1) : IdentityOf(InfosWithBoth[j]) # id]

\* The listed identities whose first record reports a battery status.
FirstReportingIds == {id \in ListedIds : HasBattery(FirstInfoOf(id))}

\* C17, amended: deviceBattery has exactly one entry for each listed
\* identity whose first device-info record reports a battery status, with
\* the status of that record; every id of it is listed; it is not set when
\* there is no such identity, even if a later record of a listed identity
\* reports a status.
C17_BatteryOfFirstRecords ==
    (pc = "done" /\ Len(fitObj.devices) > 0)
    => /\ Has(fitFileActivity, "deviceBattery") <=> FirstReportingIds # {}
       /\ {BatteryIds[k] : k \in 1..Len(BatteryIds)} = FirstReportingIds
       /\ Len(BatteryIds) = Cardinality(FirstReportingIds)
       /\ \A k \in 1..Len(BatteryIds) :
              fitFileActivity.deviceBattery[k].status
                  = FirstInfoOf(BatteryIds[k]).battery_status

\* A parse has ended on three records of two devices: the first record of
\* one device has no battery status and a later one has, the other device
\* reports one; one battery entry.
C17_Witness ==
    /\ pc = "done"
    /\ Len(fitObj.devices) = 3
    /\ Cardinality(ListedIds) = 2
    /\ Cardinality(ReportingIds) = 2
    /\ Len(BatteryIds) = 1

\* ------------------------------------------ claims on the decode loop's end

\* The keys of the totals, the derived metrics, the sport profile and the
\* devices.
SessionKeys == ParseKeys \ {"workoutName", "workoutNotes"}

\* C18: when the stream has no session message, parse leaves the totals,
\* the derived metrics, sportProfile, devices and deviceBattery as the
\* caller supplied them: it sets none, and rounds, decodes or removes none.
C18_NoSessionNoFinalization ==
    (pc = "done" /\ fitObj.sessions = <<>>)
    => \A k \in SessionKeys : FieldOf(fitFileActivity, k) = FieldOf(supplied, k)

\* A record with an empty message kind or without a message.
Skipped(r) == r.messageType = "" \/ Has(r, "absent")

\* The buffer with those records taken out.
WithoutSkipped(b) ==
    LET kept == SelectSeq(b.records, LAMBDA r : ~Skipped(r))
    IN  MakeBlob(b.b0 + SizeSum(kept, Len(kept)) + 2, b.b0, b.fileType, kept, 0, 0)

\* C19: the records with an empty message kind or without a message do not
\* end the loop and leave no trace: when parse has ended every record was
\* read, and the buckets, the pause accounting and the summary are those of
\* the buffer without these records.
C19_SkippedRecordsLeaveNoTrace ==
    pc = "done"
    => /\ recordsRead = Len(blob.records)
       /\ fitObj = RunLoop(WithoutSkipped(blob), LoopStart(WithoutSkipped(blob))).fitObj
       /\ pausedTime
              = RunLoop(WithoutSkipped(blob), LoopStart(WithoutSkipped(blob))).pausedTime
       /\ fitFileActivity = ParseOutcome(WithoutSkipped(blob), supplied).summary

\* A parse has ended on a record of an unknown kind, a record without a
\* message and a session after them.
C19_Witness ==
    /\ pc = "done"
    /\ Len(blob.records) = 3
    /\ blob.records[1] = UnknownMsg
    /\ blob.records[2] = NoMessage
    /\ fitObj.sessions = <<SessionFull.message>>
    /\ fitFileActivity.distance = 100

\* The buffer with the records readRecord throws on taken out.
WithoutMalformed(b) ==
    LET kept == SelectSeq(b.records, LAMBDA r : ~Has(r, "malformed"))
    IN  MakeBlob(b.b0 + SizeSum(kept, Len(kept)) + 2, b.b0, b.fileType, kept, 0, 0)

\* C20: a record that readRecord throws on does not make parse fail: parse
\* ends without an Error, and the summary is the finalized one of the
\* records before and after it.
C20_MalformedRecordIsCaught ==
    (/\ pc \in {"done", "failed"}
     /\ \E i \in 1..Len(blob.records) : Has(blob.records[i], "malformed"))
    => /\ pc = "done"
       /\ thrown = ""
       /\ fitFileActivity = ParseOutcome(WithoutMalformed(blob), supplied).summary

\* ------------------------------------------------------------ claims C21-C30

\* A call of the pair has ended: parse returned or threw.
Ended(i) == runs[i].pc \in {"done", "failed"}

C21_WitnessFailed ==
    /\ runs # <<>>
    /\ runs[1].pc = "failed" /\ runs[2].pc = "failed"
    /\ runs[1].blob = runs[2].blob
    /\ runs[1].thrown = "Missing '.FIT' in header"

\* C22: two calls of parse on different buffers and different destination
\* summaries, in flight together, each end with the summary and the Error
\* they end with when run alone, whatever the order of their steps.
C22_EachAsWhenAlone ==
    runs # <<>> =>
        \A i \in {1, 2} :
            Ended(i) =>
                /\ runs[i].fitFileActivity
                       = ParseOutcome(runs[i].blob, runs[i].supplied).summary
                /\ runs[i].thrown
                       = ParseOutcome(runs[i].blob, runs[i].supplied).thrown

\* The locals of a call are its own: a turn of one call changes nothing of
\* the other call.
C22_StepsAreLocal ==
    [][runs # <<>> => \E i \in {1, 2} : runs'[3 - i] = runs[3 - i]]_vars

\* Two calls on different buffers, each with a session, and different
\* summaries: one has returned while the other is inside its decode loop
\* with a record read.
C22_Witness ==
    /\ runs # <<>>
    /\ runs[1].blob # runs[2].blob
    /\ runs[1].supplied # runs[2].supplied
    /\ runs[1].pc = "done"
    /\ Len(runs[1].st.fitObj.sessions) > 0
    /\ runs[2].pc = "loop"
    /\ Len(runs[2].st.fitObj.sessions) > 0
    /\ runs[2].st.loopIndex < CrcStart(runs[2].blob)

\* The database after a write of the saved summary under its key, from one of
\* the databases the call can start with.
AfterWrite ==
    {DatabaseSet(d, saveSource, saveActivity, ActivityKey(saveActivity)) :
        d \in InitialDocuments}

\* C23: saveProcessedActivity writes the summary to the collection of the
\* given source under the key "activity-{id}"; the expiry is now plus the
\* source's maxCacheDuration only when the caller set none, an expiry the
\* caller set is kept, and the call does not raise when the write fails.
C23_SavedUnderKeyWithDefaultExpiry ==
    spc = "done" =>
        /\ saveRaised = ""
        /\ saveActivity.id = saveArg.id
        /\ IF Has(saveArg, "dateExpiry")
           THEN saveActivity = saveArg
           ELSE saveActivity
                    = SetKey(saveArg, "dateExpiry",
                             clock + MaxCacheDuration(saveSource))
        /\ saveLogged = "info" =>
               /\ documents \in AfterWrite
               /\ documents[saveSource]["activity-" \o saveArg.id] = saveActivity
        /\ saveLogged = "error" => documents \in InitialDocuments

\* A summary with an expiry set by the caller was written over an older
\* document of the same key.
C23_Witness ==
    /\ spc = "done"
    /\ saveLogged = "info"
    /\ Has(saveArg, "dateExpiry")
    /\ saveArg.id = "a1"
    /\ saveSource = "garmin"
    /\ documents.garmin["activity-a1"].dateExpiry = saveArg.dateExpiry
    /\ saveArg.dateExpiry # clock + MaxCacheDuration(saveSource)

\* The write failed; the call ended without an Error, with the default expiry
\* on the summary.
C23_WitnessFailedWrite ==
    /\ spc = "done"
    /\ saveLogged = "error"
    /\ ~Has(saveArg, "dateExpiry")
    /\ saveActivity.dateExpiry = clock + MaxCacheDuration(saveSource)

\* The Definition records for the slot of Data record i that precede it.
DefinitionsBefore(records, i) ==
    {j \in 1..(i - 1) :
        /\ Has(records[j], "defines")
        /\ records[j].message.slot = records[i].slot}

\* The layout Data record i is to be decoded with: that of the last
\* Definition record for its slot before it.
LayoutFor(records, i) ==
    records[CHOOSE j \in DefinitionsBefore(records, i) :
                \A k \in DefinitionsBefore(records, i) : k <= j].message

\* The positions of the Data records that are to yield a message of a kind,
\* in stream order.
DataOfKind(records, kind) ==
    SelectSeq([i \in 1..Len(records) |-> i],
              LAMBDA i : /\ Has(records[i], "slot")
                         /\ DefinitionsBefore(records, i) # {}
                         /\ LayoutFor(records, i).kind = kind)

\* The messages of a kind the stream is to yield.
MessagesOfKind(records, kind) ==
    [n \in 1..Len(DataOfKind(records, kind)) |->
        LET i == DataOfKind(records, kind)[n]
        IN  [f \in DOMAIN records[i].message
                     \cap LayoutFor(records, i).fields |-> records[i].message[f]]]

\* The Definition records of a stream, in order.
DefinitionRecords(records) ==
    SelectSeq(records, LAMBDA rec : Has(rec, "defines"))

\* C24: within one parse, a Data record for a slot is decoded with the
\* definition most recently stored for the slot by a preceding Definition
\* record; a Data record whose slot has no definition yet yields no message,
\* the cursor advances past it and the decode goes on.
C24_DataDecodedWithLatestDefinition ==
    /\ pc # "failed"
    /\ pc = "done" =>
           /\ thrown = ""
           /\ recordsRead = Len(blob.records)
           /\ loopIndex = CrcStart(blob)
           /\ fitObj.sessions = MessagesOfKind(blob.records, "session")
           /\ fitObj.laps = MessagesOfKind(blob.records, "lap")
           /\ Len(fitObj.definitions) = Len(DefinitionRecords(blob.records))
           /\ fitObj.named = EmptyObj

\* A slot was defined twice and a Data record for it followed: it was filed
\* as the later definition has it.
C24_Witness ==
    /\ pc = "done"
    /\ blob.records = <<DefinitionOf(SessionLayout), DefinitionOf(LapLayout),
                        DataOf(0, [total_distance |-> 10000,
                                   total_elapsed_time |-> 3600400])>>
    /\ fitObj.laps = <<[total_distance |-> 10000]>>
    /\ fitObj.sessions = <<>>

\* A Data record came before any definition of its slot and a defined one
\* after it: the first left nothing, the second was filed.
C24_WitnessUndefinedSlot ==
    /\ pc = "done"
    /\ Len(blob.records) > 1
    /\ Has(blob.records[1], "slot")
    /\ Len(fitObj.sessions) = 1
    /\ recordsRead = Len(blob.records)

\* C26: for a buffer that passes the format checks, the trailer offset
\* computed from bytes 4-7 is at least the header length and at most the
\* buffer length minus 2, and every position the decode loop reads at lies
\* inside the buffer.
C26_TrailerOffsetInsideBuffer ==
    pc \in {"crc", "loop", "done"} =>
        /\ blob.b0 <= CrcStart(blob)
        /\ CrcStart(blob) <= blob.length - 2
        /\ pc = "loop" /\ loopIndex < CrcStart(blob) => loopIndex < blob.length - 2

\* With a data length larger than the buffer the decode loop has passed the
\* last record and is about to read at the position of the file CRC.
C26_ReadPastData ==
    ~(/\ pc = "loop"
      /\ Len(blob.records) > 0
      /\ recordsRead = Len(blob.records)
      /\ loopIndex < CrcStart(blob)
      /\ loopIndex = blob.length - 2)

\* With the top bit of byte 7 set the trailer offset is negative and parse
\* still ends without an Error.
C26_NegativeOffsetRejected ==
    ~(pc = "done" /\ CrcStart(blob) < 0)

C27_SecondParseChangesNothing ==
    pc = "done" => fitFileActivity = supplied

\* The fields of the summary other than primaryBenefit and pedalBalance are
\* left as the first parse left them.
C27_OtherFieldsKept ==
    pc = "done" =>
        \A k \in (DOMAIN supplied \cup DOMAIN fitFileActivity)
                   \ {"primaryBenefit", "pedalBalance"} :
            /\ Has(supplied, k) /\ Has(fitFileActivity, k)
            /\ fitFileActivity[k] = supplied[k]

\* A second parse has ended on a summary whose first parse decoded a
\* primary benefit and a pedal balance.
C27_Witness ==
    /\ pc = "done"
    /\ Has(supplied, "primaryBenefit")
    /\ Has(supplied, "pedalBalance")
    /\ Has(supplied, "trainingLoad")

\* The places of the stream with a message of a kind.
PlacesOf(records, kind) ==
    {i \in 1..Len(records) : records[i].messageType = kind}

\* The places of the sport messages with a non-empty name.
NamedSportPlaces(records) ==
    {i \in PlacesOf(records, "sport") :
        /\ "name" \in DOMAIN records[i].message
        /\ records[i].message.name # <<>>}

\* The largest place of a non-empty set of places.
LastOf(places) == CHOOSE i \in places : \A j \in places : j <= i

\* A name without its code points from 128 to 65535.
Stripped(name) ==
    SelectSeq(name, LAMBDA c : ~(c >= 128 /\ c <= 65535))

\* C28: when at least one session was seen, sportProfile is derived from the
\* last sport message of the stream that has a non-empty name; sport
\* messages with an empty or missing name neither overwrite nor clear it, and
\* without a named sport message, or without a session, sportProfile is as the
\* caller supplied it.
C28_SportProfileFromLastNamedSport ==
    pc = "done" =>
        IF PlacesOf(blob.records, "session") # {}
           /\ NamedSportPlaces(blob.records) # {}
        THEN /\ Has(fitFileActivity, "sportProfile")
             /\ fitFileActivity.sportProfile
                    = Stripped(blob.records[LastOf(NamedSportPlaces(blob.records))]
                                   .message.name)
        ELSE /\ Has(fitFileActivity, "sportProfile") = Has(supplied, "sportProfile")
             /\ Has(supplied, "sportProfile")
                    => fitFileActivity.sportProfile = supplied.sportProfile

\* A session, a named sport message and then a sport message without a
\* name: the profile is that of the named one.
C28_Witness ==
    /\ pc = "done"
    /\ Len(blob.records) > 2
    /\ blob.records[1] = SessionFull
    /\ blob.records[2] = SportRoad
    /\ blob.records[Len(blob.records)] \in {SportEmptyName, SportNoName}
    /\ fitFileActivity.sportProfile = SportRoad.message.name
    /\ ~Has(supplied, "sportProfile")

\* The values a session has for the given keys.
PresentValues(session, keys) ==
    LET present == SelectSeq(keys, LAMBDA k : k \in DOMAIN session)
    IN  [n \in 1..Len(present) |-> session[present[n]]]

\* The sessions that have at least one of the keys.
SessionsHaving(sessions, keys) ==
    {i \in 1..Len(sessions) : PresentValues(sessions[i], keys) # <<>>}

\* The nearest integer to the mean of the values the first such session has.
RoundedMeanOfFirst(sessions, keys) ==
    LET first == CHOOSE i \in SessionsHaving(sessions, keys) :
                     \A j \in SessionsHaving(sessions, keys) : i <= j
        vals == PresentValues(sessions[first], keys)
    IN  MathRound(SumSeq(vals), Len(vals) * Unit)

SmoothnessKeys ==
    <<"avg_combined_pedal_smoothness", "avg_left_pedal_smoothness",
      "avg_right_pedal_smoothness">>

TorqueKeys ==
    <<"avg_left_torque_effectiveness", "avg_right_torque_effectiveness">>

\* C29: after a parse into an empty summary pedalSmoothness is the nearest
\* integer to the mean of the smoothness values of the first session that
\* has one, pedalTorqueEffect the same for the torque-effectiveness values,
\* trainingLoad is an integer, and neither field is set when no session has
\* a value for it.
C29_RoundedMeansOfFirstSession ==
    (pc = "done" /\ supplied = NewSummary) =>
        /\ IF SessionsHaving(SessionsOf(blob.records), SmoothnessKeys) # {}
           THEN /\ Has(fitFileActivity, "pedalSmoothness")
                /\ fitFileActivity.pedalSmoothness
                       = Unit * RoundedMeanOfFirst(SessionsOf(blob.records),
                                                   SmoothnessKeys)
           ELSE ~Has(fitFileActivity, "pedalSmoothness")
        /\ IF SessionsHaving(SessionsOf(blob.records), TorqueKeys) # {}
           THEN /\ Has(fitFileActivity, "pedalTorqueEffect")
                /\ fitFileActivity.pedalTorqueEffect
                       = Unit * RoundedMeanOfFirst(SessionsOf(blob.records),
                                                   TorqueKeys)
           ELSE ~Has(fitFileActivity, "pedalTorqueEffect")
        /\ Has(fitFileActivity, "trainingLoad")
               => fitFileActivity.trainingLoad % Unit = 0

\* The same with a first session whose mean is 0 left aside: the field is
\* then that of the first session whose mean is not 0, or 0 when there is
\* none.
C29_RoundedMeansOfFirstNonZero ==
    (pc = "done" /\ supplied = NewSummary) =>
        \A pair \in {<<"pedalSmoothness", SmoothnessKeys>>,
                     <<"pedalTorqueEffect", TorqueKeys>>} :
            LET sessions == SessionsOf(blob.records)
                nonZero == SelectSeq(sessions,
                               LAMBDA s : SumSeq(PresentValues(s, pair[2])) # 0)
            IN  IF SessionsHaving(nonZero, pair[2]) # {}
                THEN fitFileActivity[pair[1]]
                         = Unit * RoundedMeanOfFirst(nonZero, pair[2])
                ELSE IF SessionsHaving(sessions, pair[2]) # {}
                THEN fitFileActivity[pair[1]] = 0
                ELSE ~Has(fitFileActivity, pair[1])

\* The kinds of the stream that have no bucket.
KindsWithoutBucket(records) ==
    {records[i].messageType : i \in 1..Len(records)}
        \ {"", "lap", "session", "workout_step", "event", "length",
           "field_description", "device_info", "developer_data_id", "dive_gas",
           "course_point", "sport", "file_id", "definition", "monitoring",
           "monitoring_info", "stress_level"}

\* The last message of a kind in the stream.
LastMessage(records, kind) == records[LastOf(PlacesOf(records, kind))].message

\* A field of a summary as a sequence: <<value>>, or <<>> when it is not set.
SummaryField(activity, field) ==
    IF field \in DOMAIN activity THEN <<activity[field]>> ELSE <<>>

\* What a workout message gives for a field: <<value>> when the value is not
\* empty, <<>> else.
Given(message, field) ==
    IF field \in DOMAIN message /\ message[field] # <<>>
    THEN <<message[field]>> ELSE <<>>

\* C30: of a message kind without a bucket only the most recent message is
\* kept, under the name of the kind; workoutName and workoutNotes are those
\* of the last workout message of the stream, each assigned only when that
\* message has a non-empty value for it and otherwise as supplied.
C30_LastMessageOfKindKept ==
    pc = "done" =>
        /\ DOMAIN fitObj.named = KindsWithoutBucket(blob.records)
        /\ \A kind \in KindsWithoutBucket(blob.records) :
               fitObj.named[kind] = LastMessage(blob.records, kind)
        /\ LET last == IF PlacesOf(blob.records, "workout") # {}
                       THEN LastMessage(blob.records, "workout") ELSE EmptyObj
           IN  /\ SummaryField(fitFileActivity, "workoutName")
                      = IF Given(last, "wkt_name") # <<>>
                        THEN Given(last, "wkt_name")
                        ELSE SummaryField(supplied, "workoutName")
               /\ SummaryField(fitFileActivity, "workoutNotes")
                      = IF Given(last, "notes") # <<>>
                        THEN Given(last, "notes")
                        ELSE SummaryField(supplied, "workoutNotes")

\* A workout message with a name and notes was followed by one with notes
\* only: the summary has the notes of the second and no name.
C30_Witness ==
    /\ pc = "done"
    /\ supplied = NewSummary
    /\ Len(blob.records) > 1
    /\ blob.records[1] = WorkoutIntervals
    /\ blob.records[Len(blob.records)] = WorkoutNotesOnly
    /\ fitObj.named.workout = WorkoutNotesOnly.message
    /\ ~Has(fitFileActivity, "workoutName")
    /\ fitFileActivity.workoutNotes = WorkoutNotesOnly.message.notes

\* Two messages of a kind without a bucket: the later one is the one kept.
C30_WitnessOtherKind ==
    /\ pc = "done"
    /\ Len(blob.records) > 1
    /\ blob.records[1] = HrvMsg
    /\ blob.records[Len(blob.records)] = HrvLater
    /\ fitObj.named.hrv = HrvLater.message

\* ------------------------------------------------------------ claims C31-C40

\* The executions that got past the initial check and have not ended.
PastCheck == {e \in Executions : execs[e].pc \in {"mark", "search", "users", "finish"}}

\* C31: at most one execution of processRecentActivities is past the
\* processing-flag check at any time, whatever the interleaving of the
\* executions' store reads and writes.
C31_AtMostOnePastCheck == Cardinality(PastCheck) <= 1

C32_WitnessAborted ==
    \E e, o \in Executions :
        /\ execs[e].pc = "aborted"
        /\ execs[o].pc = "users"
        /\ appState.processing

\* C33: across updateTracking calls on one configuration, with no reset in
\* between, the totals of an activity id are added to the component at most
\* once.
C33_ActivityAddedOnce ==
    resets = <<>> => \A id \in ActivityIds : added[id] <= 1

\* Whether a notify call found an alert date within the last reminderDays.
FoundRecent(call) ==
    \/ SetAndAfter(call.preBefore, MinReminderDate(call.at))
    \/ SetAndAfter(call.alertBefore, MinReminderDate(call.at))

C34_WitnessSecondMessage == Len(messages) >= 2

\* C35: when an updateTracking call takes the tracked time of a component
\* with alertTime > 0, a preAlertPercent and no pre-alert sent yet to
\* preAlertPercent percent of alertTime or above, the call asks notify for a
\* PreAlert.
C35_PreAlertAtTimeThreshold ==
    LET component == config.component
    IN  (/\ component.alertTime > 0
         /\ component.preAlertPercent > 0
         /\ before.datePreAlertSent = NoDate
         /\ before.currentTime * 100 < component.preAlertPercent * component.alertTime
         /\ component.currentTime * 100 >= component.preAlertPercent * component.alertTime)
        => \E i \in DOMAIN calls : calls[i].alertType = "PreAlert"

\* C36: no two resets zeroed the component on the same calendar day.
C36_OneResetPerDay ==
    \A i, j \in DOMAIN resets : i < j => DayOf(resets[i]) # DayOf(resets[j])

\* The same for the users without privacy mode.
C36_OneResetPerDayWithHistory ==
    ~gearUser.privacyMode => C36_OneResetPerDay

\* C37: a call of upsert for a gear id that is not among the user's bikes or
\* shoes raises an error; a configuration that existed is left as it was but
\* for disabled set to true, and a configuration that did not exist does not
\* exist after the call.
C37_FailedUpsertOnlyDisables ==
    (upsertOutcome # "idle" /\ ~upsertHasGear) =>
        /\ upsertOutcome = "raised"
        /\ upsertFound.exists =>
                gearDoc \in {upsertFound, [upsertFound EXCEPT !.disabled = TRUE]}
        /\ ~upsertFound.exists => ~gearDoc.exists

\* The first part alone: the call raises an error.
C37_MissingGearRaises ==
    (upsertOutcome # "idle" /\ ~upsertHasGear) => upsertOutcome = "raised"

\* C38 as stated: however often and wherever in the sequence an activity id
\* is passed, it raises counter and activityCount once.
C38_EachIdCountedOnce ==
    \A id \in StatsIds : counted[id] <= 1

\* The fields a call for an already listed activity leaves alone.
CountFields(stats) ==
    <<stats.exists, stats.activities, stats.activityCount, stats.counter,
      stats.hasDataCounter, stats.dataCounter>>

\* C38: a call whose activity id is among the ids the stats document lists
\* changes only dateLastTrigger and the failure fields; a call whose id is not
\* listed, on a new document or because the id was dropped from the list,
\* raises counter and activityCount by one and lists the id last; the list
\* holds at most maxActivityIds ids; a call that stored nothing changed
\* nothing.
C38_ListedIdCountedOnce ==
    /\ (statsStored /\ statsFound.exists
            /\ IncludesId(statsFound.activities, statsActivity.id)) =>
        /\ CountFields(statsDoc) = CountFields(statsFound)
        /\ statsDoc.dateLastTrigger = statsNow
    /\ (statsStored /\ ~IncludesId(statsFound.activities, statsActivity.id)) =>
        /\ statsDoc.counter = statsFound.counter + 1
        /\ statsDoc.activityCount = statsFound.activityCount + 1
        /\ statsDoc.activities[Len(statsDoc.activities)] = statsActivity.id
    /\ ~statsStored => statsDoc = statsFound
    /\ Len(statsDoc.activities) <= MaxActivityIds
    /\ \A id \in StatsIds : IncludesId(statsDoc.activities, id) => counted[id] >= 1

\* An activity already listed was passed again, after another activity, and
\* only the trigger date and the failure fields changed.
C38_Witness ==
    /\ statsStored
    /\ IncludesId(statsFound.activities, statsActivity.id)
    /\ statsFound.activities[Len(statsFound.activities)] # statsActivity.id
    /\ statsDoc.counter = 2
    /\ statsDoc.recentFailures = 1
    /\ statsDoc # statsFound

\* An id dropped from the list was passed again and counted again.
C38_WitnessCountedAgain ==
    \E id \in StatsIds : counted[id] = 2

\* C39: for a recipe with a dataCounterProp, the stored dataCounter is the sum
\* of the property over the activities that raised counter, the first one
\* included.
C39_DataCounterIsSum ==
    (statsRecipe.dataCounterProp # "" /\ statsDoc.exists) =>
        /\ statsDoc.hasDataCounter
        /\ statsDoc.dataCounter = dataSum

\* The same without the activity that created the document.
C39_DataCounterSkipsFirst ==
    (statsRecipe.dataCounterProp # "" /\ statsDoc.exists /\ statsDoc.hasDataCounter) =>
        \E first \in StatsActivities :
            statsDoc.dataCounter = dataSum - first.distance

\* Whether the last call of generateArchive was made fewer than requestDays
\* days after the date of the last archive of the user it was passed.
WithinRequestDays ==
    /\ gdprArg.dateLastArchiveGenerated # NoDate
    /\ gdprNow - gdprArg.dateLastArchiveGenerated < RequestDays * DayTicks

\* The calls that search the store, write the archive or update the user.
WritesOrSearches(ops) ==
    \E i \in DOMAIN ops : ops[i] \in {"search", "listFiles", "setFile", "update"}

\* C40: a call of generateArchive made fewer than requestDays days after the
\* user's dateLastArchiveGenerated, while the bucket holds the archive and
\* getUrl answers, returns the stored archive's URL with no search, no setFile
\* and no user update; every archive was built with no earlier one, or
\* requestDays days or more after it, or with the archive gone from the
\* bucket; and a call for a missing or suspended user raises an error and
\* makes no call to the store.
C40_OneArchivePerRequestDays ==
    /\ (/\ gdprResult # "idle"
        /\ gdprArg.exists /\ ~gdprArg.suspended
        /\ WithinRequestDays
        /\ gdprFound
        /\ gdprThrew # "cache") =>
            /\ gdprResult = "cached"
            /\ gdprOps = <<"cache">>
    /\ \A i \in DOMAIN builds :
        \/ builds[i].last = NoDate
        \/ builds[i].at - builds[i].last >= RequestDays * DayTicks
        \/ ~builds[i].found
    /\ (gdprResult # "idle" /\ (~gdprArg.exists \/ gdprArg.suspended)) =>
            /\ gdprResult = "raised"
            /\ gdprOps = <<>>

\* An archive was built, and a call made on a later day within requestDays
\* returned its URL.
C40_Witness ==
    /\ gdprResult = "cached"
    /\ Len(builds) = 1
    /\ gdprNow - builds[1].at = RequestDays * DayTicks - 1
    /\ gdprArg.dateLastArchiveGenerated = builds[1].at

\* A call for a suspended user raised an error.
C40_WitnessSuspended ==
    gdprResult = "raised" /\ gdprArg.exists /\ gdprArg.suspended

\* A second archive was built requestDays after the first.
C40_WitnessRebuilt ==
    /\ Len(builds) = 2
    /\ builds[2].found
    /\ builds[2].at - builds[2].last = RequestDays * DayTicks

====
